---- MODULE Spec2Model ----
(***************************************************************************)
(* The execution core of qilang (src/src/vm.c): the value stack, the call  *)
(* frames, upvalue capture and closing, the dispatch loop run(), the       *)
(* re-entrant entry point runClosure() used by the list built-in filter,   *)
(* and interpret().  The VM is the record vm (the C global `VM vm`); the   *)
(* C call stack of nested run() activations is cstack.                     *)
(***************************************************************************)
EXTENDS Integers, Sequences, FiniteSets, TLC

VARIABLES vm, cstack, pc, result, interprets

vars == <<vm, cstack, pc, result, interprets>>

(***************************************************************************)
(* Bounds.  FRAMES_MAX and the per-frame slot budget are set in vm.h; the  *)
(* model scales them down.                                                 *)
(***************************************************************************)
FRAMES_MAX == 3

SlotsPerFrame == 7

MaxInterprets == 2

STACK_MAX == FRAMES_MAX * SlotsPerFrame

\* Memory next to the stack array that a stray stackTop can still address.
StackAddr == (0 - 2 * FRAMES_MAX - 2) .. (STACK_MAX + SlotsPerFrame)

(***************************************************************************)
(* Values: a tagged union.  Zero is the content of static storage that was *)
(* never written; Absent is a table miss.                                  *)
(***************************************************************************)
NIL_VAL == [t |-> "nil", v |-> 0]

BOOL_VAL(b) == [t |-> "bool", v |-> IF b THEN 1 ELSE 0]

\* A double, held as the count of its halves: 3 is the number 1.5.
NumberOfHalves(h) == [t |-> "num", v |-> h]

NUMBER_VAL(n) == NumberOfHalves(2 * n)

\* (int)AS_NUMBER(value): the conversion truncates toward zero.
AS_INT(value) == IF value.v >= 0 THEN value.v \div 2 ELSE 0 - ((0 - value.v) \div 2)

OBJ_VAL(id) == [t |-> "obj", v |-> id]

Zero == [t |-> "zero", v |-> 0]

IS_NUMBER(value) == value.t = "num"

isFalsey(value) == value.t = "nil" \/ (value.t = "bool" /\ value.v = 0)

(***************************************************************************)
(* Instructions: an opcode with its inline operands already decoded.       *)
(***************************************************************************)
I(op, a, b) == [op |-> op, a |-> a, b |-> b]

I0(op) == I(op, 0, 0)

I1(op, a) == I(op, a, 0)

I2(op, a, b) == I(op, a, b)

(***************************************************************************)
(* The compiler's output for the test programs: one function object per    *)
(* function, its chunk as a sequence of instructions.  Locals live in      *)
(* frame slots (slot 0 is the callee or receiver), upvalue descriptors are *)
(* <<isLocal, index>> pairs following CLOSURE.                             *)
(***************************************************************************)
Function(name, arity, upvalueCount, code) ==
    [name |-> name, arity |-> arity, upvalueCount |-> upvalueCount, code |-> code]

\* fun inc() { n = n + 1; return n; }
fn_inc ==
    Function("inc", 0, 1,
      << I1("GET_UPVALUE", 0), I1("CONSTANT", NUMBER_VAL(1)), I0("ADD"),
         I1("SET_UPVALUE", 0), I0("POP"), I1("GET_UPVALUE", 0), I0("RETURN") >>)

\* fun make() { var n = 0; fun inc() ...; return inc; }
fn_make ==
    Function("make", 0, 0,
      << I1("CONSTANT", NUMBER_VAL(0)), I2("CLOSURE", "inc", << <<1, 1>> >>),
         I1("GET_LOCAL", 2), I0("RETURN") >>)

\* fun make() ...  var c = make(); var r1 = c(); var r2 = c(); var r3 = c();
fn_S_counter ==
    Function("S_counter", 0, 0,
      << I2("CLOSURE", "make", << >>), I1("DEFINE_GLOBAL", "make"),
         I1("GET_GLOBAL", "make"), I1("CALL", 0), I1("DEFINE_GLOBAL", "c"),
         I1("GET_GLOBAL", "c"), I1("CALL", 0), I1("DEFINE_GLOBAL", "r1"),
         I1("GET_GLOBAL", "c"), I1("CALL", 0), I1("DEFINE_GLOBAL", "r2"),
         I1("GET_GLOBAL", "c"), I1("CALL", 0), I1("DEFINE_GLOBAL", "r3"),
         I0("NIL"), I0("RETURN") >>)

\* fun mix() { return a + c + b; }
fn_mix ==
    Function("mix", 0, 3,
      << I1("GET_UPVALUE", 0), I1("GET_UPVALUE", 1), I0("ADD"),
         I1("GET_UPVALUE", 2), I0("ADD"), I0("RETURN") >>)

\* fun setB() { b = b + 1; }
fn_setB ==
    Function("setB", 0, 1,
      << I1("GET_UPVALUE", 0), I1("CONSTANT", NUMBER_VAL(1)), I0("ADD"),
         I1("SET_UPVALUE", 0), I0("POP"), I0("NIL"), I0("RETURN") >>)

\* fun share() { var a = 1;
\*   { var b = 2; var c = 3; fun mix() ...; fun setB() ...;
\*     setB(); seen = mix(); mixG = mix; setG = setB; }
\*   setG(); return mixG(); }
fn_share ==
    Function("share", 0, 0,
      << I1("CONSTANT", NUMBER_VAL(1)), I1("CONSTANT", NUMBER_VAL(2)),
         I1("CONSTANT", NUMBER_VAL(3)),
         I2("CLOSURE", "mix", << <<1, 1>>, <<1, 3>>, <<1, 2>> >>),
         I2("CLOSURE", "setB", << <<1, 2>> >>),
         I1("GET_LOCAL", 5), I1("CALL", 0), I0("POP"),
         I1("GET_LOCAL", 4), I1("CALL", 0), I1("SET_GLOBAL", "seen"), I0("POP"),
         I1("GET_LOCAL", 4), I1("SET_GLOBAL", "mixG"), I0("POP"),
         I1("GET_LOCAL", 5), I1("SET_GLOBAL", "setG"), I0("POP"),
         I0("POP"), I0("POP"), I0("CLOSE_UPVALUE"), I0("CLOSE_UPVALUE"),
         I1("GET_GLOBAL", "setG"), I1("CALL", 0), I0("POP"),
         I1("GET_GLOBAL", "mixG"), I1("CALL", 0), I0("RETURN") >>)

\* var seen; var mixG; var setG; fun share() ...  var after = share();
fn_S_share ==
    Function("S_share", 0, 0,
      << I0("NIL"), I1("DEFINE_GLOBAL", "seen"), I0("NIL"), I1("DEFINE_GLOBAL", "mixG"),
         I0("NIL"), I1("DEFINE_GLOBAL", "setG"),
         I2("CLOSURE", "share", << >>), I1("DEFINE_GLOBAL", "share"),
         I1("GET_GLOBAL", "share"), I1("CALL", 0), I1("DEFINE_GLOBAL", "after"),
         I0("NIL"), I0("RETURN") >>)

\* fun deep() { return x; }
fn_deep ==
    Function("deep", 0, 1, << I1("GET_UPVALUE", 0), I0("RETURN") >>)

\* fun gx() { fun deep() ...; return deep(); }
fn_gx ==
    Function("gx", 0, 1,
      << I2("CLOSURE", "deep", << <<0, 0>> >>), I1("GET_LOCAL", 1), I1("CALL", 0),
         I0("RETURN") >>)

\* var G; { var x = 1; fun gx() ...; G = gx; nil + 1; }
fn_S_escape ==
    Function("S_escape", 0, 0,
      << I0("NIL"), I1("DEFINE_GLOBAL", "G"),
         I1("CONSTANT", NUMBER_VAL(1)), I2("CLOSURE", "gx", << <<1, 1>> >>),
         I1("GET_LOCAL", 2), I1("SET_GLOBAL", "G"), I0("POP"),
         I0("NIL"), I1("CONSTANT", NUMBER_VAL(1)), I0("ADD"), I0("POP"),
         I0("POP"), I0("CLOSE_UPVALUE"), I0("NIL"), I0("RETURN") >>)

\* var gv = G();
fn_S_useG ==
    Function("S_useG", 0, 0,
      << I1("GET_GLOBAL", "G"), I1("CALL", 0), I1("DEFINE_GLOBAL", "gv"),
         I0("NIL"), I0("RETURN") >>)

\* fun keep(x) { return x; }
fn_keep ==
    Function("keep", 1, 0, << I1("GET_LOCAL", 1), I0("RETURN") >>)

\* fun keepLocal(x) { var y = x; return y; }
fn_keepLocal ==
    Function("keepLocal", 1, 0,
      << I1("GET_LOCAL", 1), I1("GET_LOCAL", 2), I0("RETURN") >>)

\* fun bad(x) { return x + nil; }
fn_bad ==
    Function("bad", 1, 0,
      << I1("GET_LOCAL", 1), I0("NIL"), I0("ADD"), I0("RETURN") >>)

\* fun keep(x) ...  var L = [1, nil].filter(keep);
fn_S_filter ==
    Function("S_filter", 0, 0,
      << I2("CLOSURE", "keep", << >>), I1("DEFINE_GLOBAL", "keep"),
         I1("CONSTANT", NUMBER_VAL(1)), I0("NIL"), I1("BUILD_LIST", 2),
         I1("GET_GLOBAL", "keep"), I2("INVOKE", "filter", 1),
         I1("DEFINE_GLOBAL", "L"), I0("NIL"), I0("RETURN") >>)

\* fun keepLocal(x) ...  var L = [1, 2].filter(keepLocal);
fn_S_filterLocal ==
    Function("S_filterLocal", 0, 0,
      << I2("CLOSURE", "keepLocal", << >>), I1("DEFINE_GLOBAL", "keepLocal"),
         I1("CONSTANT", NUMBER_VAL(1)), I1("CONSTANT", NUMBER_VAL(2)),
         I1("BUILD_LIST", 2),
         I1("GET_GLOBAL", "keepLocal"), I2("INVOKE", "filter", 1),
         I1("DEFINE_GLOBAL", "L"), I0("NIL"), I0("RETURN") >>)

\* fun bad(x) ...  [1].filter(bad);
fn_S_filterErr ==
    Function("S_filterErr", 0, 0,
      << I2("CLOSURE", "bad", << >>), I1("DEFINE_GLOBAL", "bad"),
         I1("CONSTANT", NUMBER_VAL(1)), I1("BUILD_LIST", 1),
         I1("GET_GLOBAL", "bad"), I2("INVOKE", "filter", 1),
         I0("POP"), I0("NIL"), I0("RETURN") >>)

\* fun r() { r(); }
fn_r ==
    Function("r", 0, 0,
      << I1("GET_GLOBAL", "r"), I1("CALL", 0), I0("POP"), I0("NIL"), I0("RETURN") >>)

\* fun r() ...  r();
fn_S_recurse ==
    Function("S_recurse", 0, 0,
      << I2("CLOSURE", "r", << >>), I1("DEFINE_GLOBAL", "r"),
         I1("GET_GLOBAL", "r"), I1("CALL", 0), I0("POP"), I0("NIL"), I0("RETURN") >>)

\* fun rf() { [1].filter(keep); rf(); }
fn_rf ==
    Function("rf", 0, 0,
      << I1("CONSTANT", NUMBER_VAL(1)), I1("BUILD_LIST", 1),
         I1("GET_GLOBAL", "keep"), I2("INVOKE", "filter", 1), I0("POP"),
         I1("GET_GLOBAL", "rf"), I1("CALL", 0), I0("POP"), I0("NIL"), I0("RETURN") >>)

\* fun keep(x) ...  fun rf() ...  rf();
fn_S_recurseFilter ==
    Function("S_recurseFilter", 0, 0,
      << I2("CLOSURE", "keep", << >>), I1("DEFINE_GLOBAL", "keep"),
         I2("CLOSURE", "rf", << >>), I1("DEFINE_GLOBAL", "rf"),
         I1("GET_GLOBAL", "rf"), I1("CALL", 0), I0("POP"), I0("NIL"), I0("RETURN") >>)

\* init(v) { this.v = v; }
fn_A_init ==
    Function("A_init", 1, 0,
      << I1("GET_LOCAL", 0), I1("GET_LOCAL", 1), I1("SET_PROPERTY", "v"), I0("POP"),
         I1("GET_LOCAL", 0), I0("RETURN") >>)

\* get() { return this.v; }
fn_A_get ==
    Function("A_get", 0, 0,
      << I1("GET_LOCAL", 0), I1("GET_PROPERTY", "v"), I0("RETURN") >>)

\* get() { return super.get(); }
fn_B_get ==
    Function("B_get", 0, 1,
      << I1("GET_LOCAL", 0), I1("GET_UPVALUE", 0), I2("SUPER_INVOKE", "get", 0),
         I0("RETURN") >>)

\* class A { init(v) ...  get() ... }  class B < A { get() ... }
\* var b = B(5); var m = b.get; var viaBound = m(); var viaInvoke = b.get();
\* b.f = keep; var viaField = b.f(9);
fn_S_class ==
    Function("S_class", 0, 0,
      << I1("CLASS", "A"), I1("DEFINE_GLOBAL", "A"), I1("GET_GLOBAL", "A"),
         I2("CLOSURE", "A_init", << >>), I1("METHOD", "init"),
         I2("CLOSURE", "A_get", << >>), I1("METHOD", "get"), I0("POP"),
         I1("CLASS", "B"), I1("DEFINE_GLOBAL", "B"), I1("GET_GLOBAL", "A"),
         I1("GET_GLOBAL", "B"), I0("INHERIT"), I1("GET_GLOBAL", "B"),
         I2("CLOSURE", "B_get", << <<1, 1>> >>), I1("METHOD", "get"), I0("POP"),
         I0("CLOSE_UPVALUE"),
         I1("GET_GLOBAL", "B"), I1("CONSTANT", NUMBER_VAL(5)), I1("CALL", 1),
         I1("DEFINE_GLOBAL", "b"),
         I1("GET_GLOBAL", "b"), I1("GET_PROPERTY", "get"), I1("DEFINE_GLOBAL", "m"),
         I1("GET_GLOBAL", "m"), I1("CALL", 0), I1("DEFINE_GLOBAL", "viaBound"),
         I1("GET_GLOBAL", "b"), I2("INVOKE", "get", 0), I1("DEFINE_GLOBAL", "viaInvoke"),
         I1("GET_GLOBAL", "b"), I2("CLOSURE", "keep", << >>), I1("SET_PROPERTY", "f"),
         I0("POP"),
         I1("GET_GLOBAL", "b"), I1("CONSTANT", NUMBER_VAL(9)), I2("INVOKE", "f", 1),
         I1("DEFINE_GLOBAL", "viaField"), I0("NIL"), I0("RETURN") >>)

\* The k-th string constant of the source a chunk was compiled from.
StringConstant(k) == [t |-> "str", v |-> k]

\* The string constants of each source, in the order of their first use.
StringConstants(script) ==
    CASE script = "S_super" -> << <<"A">>, <<"B">> >>
      [] script = "S_strings" -> << <<"a", "b">>, << >>, <<"c", "b">>, <<"a">> >>
      [] script = "S_storeRange" -> << <<"a", "b">>, <<"a">> >>
      [] OTHER -> << >>

\* The programs about calls, classes, strings and lists.
MorePrograms ==
    { \* keep();
      Function("S_arity", 0, 0,
        << I2("CLOSURE", "keep", << >>), I1("CALL", 0), I0("POP"),
           I0("NIL"), I0("RETURN") >>),
      \* 1();
      Function("S_notCallable", 0, 0,
        << I1("CONSTANT", NUMBER_VAL(1)), I1("CALL", 0), I0("POP"),
           I0("NIL"), I0("RETURN") >>),
      \* get() { return 1; }
      Function("P_get", 0, 0, << I1("CONSTANT", NUMBER_VAL(1)), I0("RETURN") >>),
      \* class P { get() ... }  var p = P(); p.get = 5; p.get();
      Function("S_fieldCall", 0, 0,
        << I1("CLASS", "P"), I1("DEFINE_GLOBAL", "P"), I1("GET_GLOBAL", "P"),
           I2("CLOSURE", "P_get", << >>), I1("METHOD", "get"), I0("POP"),
           I1("GET_GLOBAL", "P"), I1("CALL", 0), I1("DEFINE_GLOBAL", "p"),
           I1("GET_GLOBAL", "p"), I1("CONSTANT", NUMBER_VAL(5)), I1("SET_PROPERTY", "get"),
           I0("POP"),
           I1("GET_GLOBAL", "p"), I2("INVOKE", "get", 0), I0("POP"),
           I0("NIL"), I0("RETURN") >>),
      \* class Q {}  Q(1);
      Function("S_noInitArgs", 0, 0,
        << I1("CLASS", "Q"), I1("DEFINE_GLOBAL", "Q"), I1("GET_GLOBAL", "Q"), I0("POP"),
           I1("GET_GLOBAL", "Q"), I1("CONSTANT", NUMBER_VAL(1)), I1("CALL", 1), I0("POP"),
           I0("NIL"), I0("RETURN") >>),
      \* A();  with the class A of S_class, whose init takes one argument
      Function("S_initArity", 0, 0,
        << I1("GET_GLOBAL", "A"), I1("CALL", 0), I0("POP"), I0("NIL"), I0("RETURN") >>),
      \* greet() { return "A"; }
      Function("Base_greet", 0, 0, << I1("CONSTANT", StringConstant(1)), I0("RETURN") >>),
      \* greet() { return super.greet() + "B"; }
      Function("Derived_greet", 0, 1,
        << I1("GET_LOCAL", 0), I1("GET_UPVALUE", 0), I2("SUPER_INVOKE", "greet", 0),
           I1("CONSTANT", StringConstant(2)), I0("ADD"), I0("RETURN") >>),
      \* bad() { return super.nope(); }
      Function("Derived_bad", 0, 1,
        << I1("GET_LOCAL", 0), I1("GET_UPVALUE", 0), I2("SUPER_INVOKE", "nope", 0),
           I0("RETURN") >>),
      \* class Base { greet() ... }  class Derived < Base { greet() ...  bad() ... }
      \* var greeting = Derived().greet(); Derived().bad();
      Function("S_super", 0, 0,
        << I1("CLASS", "Base"), I1("DEFINE_GLOBAL", "Base"), I1("GET_GLOBAL", "Base"),
           I2("CLOSURE", "Base_greet", << >>), I1("METHOD", "greet"), I0("POP"),
           I1("CLASS", "Derived"), I1("DEFINE_GLOBAL", "Derived"),
           I1("GET_GLOBAL", "Base"), I1("GET_GLOBAL", "Derived"), I0("INHERIT"),
           I1("GET_GLOBAL", "Derived"),
           I2("CLOSURE", "Derived_greet", << <<1, 1>> >>), I1("METHOD", "greet"),
           I2("CLOSURE", "Derived_bad", << <<1, 1>> >>), I1("METHOD", "bad"),
           I0("POP"), I0("CLOSE_UPVALUE"),
           I1("GET_GLOBAL", "Derived"), I1("CALL", 0), I2("INVOKE", "greet", 0),
           I1("DEFINE_GLOBAL", "greeting"),
           I1("GET_GLOBAL", "Derived"), I1("CALL", 0), I2("INVOKE", "bad", 0), I0("POP"),
           I0("NIL"), I0("RETURN") >>),
      \* var n = 1; class Odd < n {}
      Function("S_inheritNumber", 0, 0,
        << I1("CONSTANT", NUMBER_VAL(1)), I1("DEFINE_GLOBAL", "n"),
           I1("CLASS", "Odd"), I1("DEFINE_GLOBAL", "Odd"),
           I1("GET_GLOBAL", "n"), I1("GET_GLOBAL", "Odd"), I0("INHERIT"),
           I1("GET_GLOBAL", "Odd"), I0("POP"), I0("CLOSE_UPVALUE"),
           I0("NIL"), I0("RETURN") >>),
      \* var total = 1; total = 2; zz = 3;
      Function("S_assign", 0, 0,
        << I1("CONSTANT", NUMBER_VAL(1)), I1("DEFINE_GLOBAL", "total"),
           I1("CONSTANT", NUMBER_VAL(2)), I1("SET_GLOBAL", "total"), I0("POP"),
           I1("CONSTANT", NUMBER_VAL(3)), I1("SET_GLOBAL", "zz"), I0("POP"),
           I0("NIL"), I0("RETURN") >>),
      \* zz;
      Function("S_readUndefined", 0, 0,
        << I1("GET_GLOBAL", "zz"), I0("POP"), I0("NIL"), I0("RETURN") >>),
      \* core.x = 1;
      Function("S_setStatic", 0, 0,
        << I1("GET_GLOBAL", "core"), I1("CONSTANT", NUMBER_VAL(1)), I1("SET_PROPERTY", "x"),
           I0("POP"), I0("NIL"), I0("RETURN") >>),
      \* nil.x = 2;
      Function("S_setNil", 0, 0,
        << I0("NIL"), I1("CONSTANT", NUMBER_VAL(2)), I1("SET_PROPERTY", "x"),
           I0("POP"), I0("NIL"), I0("RETURN") >>),
      \* var s = "ab"; var t = s.substring(0, 2); var e = s + "";
      \* var u = "cb"; u[0] = "a"; var w = s.upper(); var ch = s[1]; s[nil];
      Function("S_strings", 0, 0,
        << I1("CONSTANT", StringConstant(1)), I1("DEFINE_GLOBAL", "s"),
           I1("GET_GLOBAL", "s"), I1("CONSTANT", NUMBER_VAL(0)), I1("CONSTANT", NUMBER_VAL(2)),
           I2("INVOKE", "substring", 2), I1("DEFINE_GLOBAL", "t"),
           I1("GET_GLOBAL", "s"), I1("CONSTANT", StringConstant(2)), I0("ADD"),
           I1("DEFINE_GLOBAL", "e"),
           I1("CONSTANT", StringConstant(3)), I1("DEFINE_GLOBAL", "u"),
           I1("GET_GLOBAL", "u"), I1("CONSTANT", NUMBER_VAL(0)),
           I1("CONSTANT", StringConstant(4)), I0("STORE_SUBSCR"), I0("POP"),
           I1("GET_GLOBAL", "s"), I2("INVOKE", "upper", 0), I1("DEFINE_GLOBAL", "w"),
           I1("GET_GLOBAL", "s"), I1("CONSTANT", NUMBER_VAL(1)), I0("INDEX_SUBSCR"),
           I1("DEFINE_GLOBAL", "ch"),
           I1("GET_GLOBAL", "s"), I0("NIL"), I0("INDEX_SUBSCR"), I0("POP"),
           I0("NIL"), I0("RETURN") >>),
      \* var xs = [1, 2]; var first = xs[0]; var last = xs[-1];
      \* xs[1] = 3; xs[-2] = 4; var odd = xs[-2.5]; xs[2];
      Function("S_subscript", 0, 0,
        << I1("CONSTANT", NUMBER_VAL(1)), I1("CONSTANT", NUMBER_VAL(2)), I1("BUILD_LIST", 2),
           I1("DEFINE_GLOBAL", "xs"),
           I1("GET_GLOBAL", "xs"), I1("CONSTANT", NUMBER_VAL(0)), I0("INDEX_SUBSCR"),
           I1("DEFINE_GLOBAL", "first"),
           I1("GET_GLOBAL", "xs"), I1("CONSTANT", NUMBER_VAL(1)), I0("NEGATE"),
           I0("INDEX_SUBSCR"), I1("DEFINE_GLOBAL", "last"),
           I1("GET_GLOBAL", "xs"), I1("CONSTANT", NUMBER_VAL(1)), I1("CONSTANT", NUMBER_VAL(3)),
           I0("STORE_SUBSCR"), I0("POP"),
           I1("GET_GLOBAL", "xs"), I1("CONSTANT", NUMBER_VAL(2)), I0("NEGATE"),
           I1("CONSTANT", NUMBER_VAL(4)), I0("STORE_SUBSCR"), I0("POP"),
           I1("GET_GLOBAL", "xs"), I1("CONSTANT", NumberOfHalves(5)), I0("NEGATE"),
           I0("INDEX_SUBSCR"), I1("DEFINE_GLOBAL", "odd"),
           I1("GET_GLOBAL", "xs"), I1("CONSTANT", NUMBER_VAL(2)), I0("INDEX_SUBSCR"), I0("POP"),
           I0("NIL"), I0("RETURN") >>),
      \* "ab"[-3] = "a";
      Function("S_storeRange", 0, 0,
        << I1("CONSTANT", StringConstant(1)), I1("CONSTANT", NUMBER_VAL(3)), I0("NEGATE"),
           I1("CONSTANT", StringConstant(2)), I0("STORE_SUBSCR"), I0("POP"),
           I0("NIL"), I0("RETURN") >>),
      \* var ys = [1, 2]; ys.insert(1, 9); ys.remove(1); ys.insert(-1, 9); ys.remove(-1);
      \* ys[nil] = 1;
      Function("S_insertRemove", 0, 0,
        << I1("CONSTANT", NUMBER_VAL(1)), I1("CONSTANT", NUMBER_VAL(2)), I1("BUILD_LIST", 2),
           I1("DEFINE_GLOBAL", "ys"),
           I1("GET_GLOBAL", "ys"), I1("CONSTANT", NUMBER_VAL(1)), I1("CONSTANT", NUMBER_VAL(9)),
           I2("INVOKE", "insert", 2), I0("POP"),
           I1("GET_GLOBAL", "ys"), I1("CONSTANT", NUMBER_VAL(1)), I2("INVOKE", "remove", 1),
           I0("POP"),
           I1("GET_GLOBAL", "ys"), I1("CONSTANT", NUMBER_VAL(1)), I0("NEGATE"),
           I1("CONSTANT", NUMBER_VAL(9)), I2("INVOKE", "insert", 2), I0("POP"),
           I1("GET_GLOBAL", "ys"), I1("CONSTANT", NUMBER_VAL(1)), I0("NEGATE"),
           I2("INVOKE", "remove", 1), I0("POP"),
           I1("GET_GLOBAL", "ys"), I0("NIL"), I1("CONSTANT", NUMBER_VAL(1)),
           I0("STORE_SUBSCR"), I0("POP"), I0("NIL"), I0("RETURN") >>)
    }

Functions ==
    MorePrograms \cup
    { fn_inc, fn_make, fn_S_counter, fn_mix, fn_setB, fn_share, fn_S_share,
      fn_deep, fn_gx, fn_S_escape, fn_S_useG, fn_keep, fn_keepLocal, fn_bad,
      fn_S_filter, fn_S_filterLocal, fn_S_filterErr, fn_r, fn_S_recurse,
      fn_rf, fn_S_recurseFilter, fn_A_init, fn_A_get, fn_B_get, fn_S_class }

\* The sources interpret() is called with, by the name of their top-level function.
Scripts ==
    { "S_counter", "S_share", "S_escape", "S_useG", "S_filter", "S_filterLocal",
      "S_filterErr", "S_recurse", "S_recurseFilter", "S_class",
      "S_arity", "S_notCallable", "S_fieldCall", "S_noInitArgs", "S_initArity",
      "S_super", "S_inheritNumber", "S_assign", "S_readUndefined", "S_setStatic",
      "S_setNil", "S_strings", "S_subscript", "S_storeRange", "S_insertRemove" }

FunctionNamed(name) == CHOOSE f \in Functions : f.name = name

(***************************************************************************)
(* Heap objects (object.h).  An upvalue's location is either a stack slot  *)
(* or its own `closed` field.                                              *)
(***************************************************************************)
StackLoc(slot) == [own |-> FALSE, at |-> slot]

OwnLoc == [own |-> TRUE, at |-> 0]

\* function and unit name the ObjFunction: the function of that name as the
\* unit-th compilation made it.
ObjClosure(function, unit, upvalues) ==
    [kind |-> "closure", function |-> function, unit |-> unit, upvalues |-> upvalues]

ObjUpvalue(location, closed) ==
    [kind |-> "upvalue", location |-> location, closed |-> closed]

ObjList(items) == [kind |-> "list", items |-> items]

ObjClass(name, methods) == [kind |-> "class", name |-> name, methods |-> methods]

ObjInstance(klass, fields, isStatic) ==
    [kind |-> "instance", klass |-> klass, fields |-> fields, isStatic |-> isStatic]

ObjBoundMethod(receiver, method) ==
    [kind |-> "bound", receiver |-> receiver, method |-> method]

\* The value interpret() pushes for the compiled function before wrapping it.
FunctionVal == [t |-> "function", v |-> 0]

\* The value defineNativeInstance pushes for the name while it sets the global.
NameVal == [t |-> "name", v |-> 0]

IsObjKind(m, value, kind) ==
    value.t = "obj" /\ value.v \in DOMAIN m.objects /\ m.objects[value.v].kind = kind

IS_CLOSURE(m, value) == IsObjKind(m, value, "closure")

IS_CLASS(m, value) == IsObjKind(m, value, "class")

IS_INSTANCE(m, value) == IsObjKind(m, value, "instance")

IS_LIST(m, value) == IsObjKind(m, value, "list")

IS_BOUND_METHOD(m, value) == IsObjKind(m, value, "bound")

\* Allocation appends to the object list; the new object's handle is its index.
NewId(m) == Len(m.objects) + 1

Allocate(m, object) == [m EXCEPT !.objects = Append(@, object)]

FunctionOf(m, closure) == FunctionNamed(m.objects[closure].function)

(***************************************************************************)
(* Hash tables keyed by interned strings: a finite map from names.         *)
(***************************************************************************)
EmptyTable == [k \in {} |-> NIL_VAL]

tableHas(table, key) == key \in DOMAIN table

tableSet(table, key, value) ==
    [k \in DOMAIN table \cup {key} |-> IF k = key THEN value ELSE table[k]]

tableDelete(table, key) == [k \in DOMAIN table \ {key} |-> table[k]]

tableAddAll(from, to) ==
    [k \in DOMAIN to \cup DOMAIN from |-> IF k \in DOMAIN from THEN from[k] ELSE to[k]]

(***************************************************************************)
(* The collector's mark phase: the objects reachable from the roots, which *)
(* are the stack below stackTop, the closures of the active frames, the    *)
(* open-upvalue list and the globals.  vm.markValue is a flag, set once by *)
(* initVM, and holds no object.                                            *)
(***************************************************************************)
markRoots(m) ==
    LET ObjOf(value) == IF value.t = "obj" THEN {value.v} ELSE {}
        InTable(table) == UNION {ObjOf(table[k]) : k \in DOMAIN table}
        Refs(id) ==
            LET obj == m.objects[id]
            IN  CASE obj.kind = "closure" ->
                       ({obj.upvalues[i] : i \in DOMAIN obj.upvalues} \ {0})
                         \cup (IF obj.unit \in DOMAIN m.units
                               THEN {m.units[obj.unit][i] : i \in DOMAIN m.units[obj.unit]}
                               ELSE {})
                  [] obj.kind = "upvalue" -> ObjOf(obj.closed)
                  [] obj.kind = "list" -> UNION {ObjOf(obj.items[i]) : i \in DOMAIN obj.items}
                  [] obj.kind = "class" -> InTable(obj.methods)
                  [] obj.kind = "instance" -> {obj.klass} \cup InTable(obj.fields)
                  [] obj.kind = "bound" -> ObjOf(obj.receiver) \cup {obj.method}
                  [] OTHER -> {}
        roots ==
            UNION {ObjOf(m.stack[i]) : i \in {j \in DOMAIN m.stack : 0 <= j /\ j < m.stackTop}}
              \cup {m.frames[i].closure : i \in {j \in DOMAIN m.frames : j < m.frameCount}}
              \cup {m.openUpvalues[i] : i \in DOMAIN m.openUpvalues}
              \cup InTable(m.globals)
        RECURSIVE Trace(_)
        Trace(gray) ==
            LET next == gray \cup UNION {Refs(id) : id \in gray \cap DOMAIN m.objects}
            IN  IF next = gray THEN gray ELSE Trace(next)
    IN  Trace(roots)

(***************************************************************************)
(* Strings.  chars is the allocated buffer, one character per element, NUL *)
(* the terminator; hash stands for the hash computed when the string was   *)
(* made: the length characters it was computed from.  Every string made is *)
(* in the intern table vm.strings, which tableFindString probes by hash    *)
(* and then compares by length, hash and characters.                       *)
(***************************************************************************)
NUL == "NUL"

\* allocateString(chars, length, hash)
ObjString(chars, length) ==
    [kind |-> "string", chars |-> chars, length |-> length,
     hash |-> SubSeq(chars, 1, length)]

IS_STRING(m, value) == IsObjKind(m, value, "string")

\* wcslen: the characters before the first NUL; a buffer without one is read
\* past its end, which the callers record.
wcslen(chars) ==
    IF \E k \in 1 .. Len(chars) : chars[k] = NUL
    THEN (CHOOSE k \in 1 .. Len(chars) :
              chars[k] = NUL /\ \A j \in 1 .. (k - 1) : chars[j] # NUL) - 1
    ELSE Len(chars)

\* The interned string of this length, hash and characters, 0 (NULL) when
\* there is none.
tableFindString(m, chars, length) ==
    LET found == {id \in 1 .. Len(m.objects) :
                     /\ m.objects[id].kind = "string"
                     /\ m.objects[id].length = length
                     /\ m.objects[id].hash = chars
                     /\ SubSeq(m.objects[id].chars, 1, length) = chars}
    IN  IF found = {} THEN 0 ELSE CHOOSE id \in found : TRUE

\* takeString(chars, length): the interned string if there is one, else a new
\* string over the buffer.  copyString differs only in copying the characters
\* before it makes the new string.
takeString(m, chars, length) ==
    LET interned == tableFindString(m, SubSeq(chars, 1, length), length)
    IN  IF interned # 0
        THEN [m |-> m, string |-> interned]
        ELSE [m |-> Allocate(m, ObjString(chars, length)), string |-> NewId(m)]

concatenate(m, a, b) ==
    takeString(m, SubSeq(m.objects[a].chars, 1, m.objects[a].length)
                      \o SubSeq(m.objects[b].chars, 1, m.objects[b].length) \o <<NUL>>,
               m.objects[a].length + m.objects[b].length)

towupper(char) ==
    CASE char = "a" -> "A"
      [] char = "b" -> "B"
      [] char = "c" -> "C"
      [] OTHER -> char

isValidStringIndex(string, index) == index >= 0 /\ index <= string.length - 1

indexFromString(string, index) == string.chars[index + 1]

\* storeToString: the character is written into the string's own buffer.
storeToString(m, string, index, char) ==
    [m EXCEPT !.objects[string].chars[index + 1] = char]

\* towlower, on the letters the model's upper-case texts use.
towlower(char) ==
    CASE char = "A" -> "a"
      [] char = "B" -> "b"
      [] char = "C" -> "c"
      [] OTHER -> char

\* The C string a buffer holds: its characters before the terminator.
Text(chars) == SubSeq(chars, 1, wcslen(chars))

\* wcsstr(haystack, needle) - haystack: the offset of the first occurrence of
\* needle, -1 for NULL.  An empty needle is found at offset 0.
wcsstr(haystack, needle) ==
    LET found == {p \in 0 .. (Len(haystack) - Len(needle)) :
                     SubSeq(haystack, p + 1, p + Len(needle)) = needle}
    IN  IF found = {} THEN 0 - 1 ELSE CHOOSE p \in found : \A q \in found : p <= q

\* containsChar(input, c): iswspace(c) for a NULL input, written <<NUL>> (no
\* text holds a terminator), else whether c is one of input's characters.
containsChar(input, c) ==
    IF input = <<NUL>> THEN c = " " ELSE \E k \in 1 .. Len(input) : input[k] = c

RECURSIVE count(_, _, _)
\* The loop of the count built-in, entered with tmp at offset `tmp` of the
\* receiver's text: count++; tmp++; tmp = wcsstr(tmp, search).  past: tmp was
\* moved beyond the terminator and wcsstr read from there.
count(text, search, tmp) ==
    IF tmp > Len(text)
    THEN [count |-> 0, past |-> TRUE]
    ELSE LET found == wcsstr(SubSeq(text, tmp + 1, Len(text)), search)
         IN  IF found = 0 - 1
             THEN [count |-> 0, past |-> FALSE]
             ELSE LET rest == count(text, search, tmp + found + 1)
                  IN  [count |-> rest.count + 1, past |-> rest.past]

RECURSIVE replaceLoop(_, _, _, _, _)
\* The while loop of the replace built-in: next is the offset of `next` in
\* the receiver's text, buff the C string built so far.  With an empty old
\* and text left, next never moves: the loop does not end.
replaceLoop(text, old, new, buff, next) ==
    IF next >= Len(text)
    THEN [buff |-> buff, hang |-> FALSE]
    ELSE LET pos == wcsstr(SubSeq(text, next + 1, Len(text)), old)
         IN  IF pos = 0 - 1
             THEN [buff |-> buff \o SubSeq(text, next + 1, Len(text)), hang |-> FALSE]
             ELSE IF old = << >>
             THEN [buff |-> buff \o new, hang |-> TRUE]
             ELSE replaceLoop(text, old, new,
                              buff \o SubSeq(text, next + 1, next + pos) \o new,
                              next + pos + Len(old))

\* replace: buff starts as wcsdup(str->chars), which has room for the
\* receiver's text and its terminator.  over: more was written into it.
replace(text, old, new) ==
    LET pos == wcsstr(text, old)
        r == IF pos = 0 - 1
             THEN [buff |-> text, hang |-> FALSE]
             ELSE replaceLoop(text, old, new, SubSeq(text, 1, pos) \o new, pos + Len(old))
    IN  [buff |-> r.buff, hang |-> r.hang,
         over |-> Len(r.buff) > Len(text) \/ (r.hang /\ new # << >>)]

RECURSIVE wcstok(_, _)
\* The tokens that successive calls of wcstok yield: maximal runs of
\* characters that are not delimiters.
wcstok(text, delimiters) ==
    IF text = << >>
    THEN << >>
    ELSE IF containsChar(delimiters, text[1])
    THEN wcstok(Tail(text), delimiters)
    ELSE LET stops == {k \in 1 .. Len(text) : containsChar(delimiters, text[k])}
             n == IF stops = {} THEN Len(text)
                  ELSE (CHOOSE k \in stops : \A j \in stops : k <= j) - 1
         IN  <<SubSeq(text, 1, n)>> \o wcstok(SubSeq(text, n + 2, Len(text)), delimiters)

\* The three trim built-ins.  null: the result is copyString(0, 1), made from
\* the null pointer; otherwise the result is copyString(str, res_size).
trim(text, remove, atStart, atEnd) ==
    LET lead == {k \in 0 .. Len(text) :
                    \A j \in 1 .. k : containsChar(remove, text[j])}
        str == IF atStart THEN CHOOSE k \in lead : \A j \in lead : j <= k ELSE 0
        rest == Len(text) - str
        stay == {e \in str .. (str + rest - 1) :
                    \A j \in (e + 1) .. (str + rest - 1) : containsChar(remove, text[j + 1])}
        end == IF rest = 0 THEN str
               ELSE (CHOOSE e \in stay : \A j \in stay : e <= j) + 1
        res_size == IF ~atEnd THEN rest
                    ELSE IF rest = 0 \/ end - str < rest - 1 THEN end - str
                    ELSE rest - 1
    IN  [null |-> atStart /\ rest = 0, chars |-> SubSeq(text, str + 1, str + res_size)]

(***************************************************************************)
(* Lists (object.c).                                                       *)
(***************************************************************************)
isValidListIndex(list, index) == index >= 0 /\ index <= Len(list.items) - 1

indexFromList(list, index) == list.items[index + 1]

storeToList(m, list, index, value) ==
    [m EXCEPT !.objects[list].items[index + 1] = value]

\* insertToList: the items from index on move up by one.
insertToList(m, list, value, index) ==
    [m EXCEPT !.objects[list].items =
        SubSeq(@, 1, index) \o <<value>> \o SubSeq(@, index + 1, Len(@))]

\* deleteFromList: the items after index move down by one.
deleteFromList(m, list, index) ==
    [m EXCEPT !.objects[list].items =
        SubSeq(@, 1, index) \o SubSeq(@, index + 2, Len(@))]

(***************************************************************************)
(* Runtime errors, as the message runtimeError prints.                     *)
(***************************************************************************)
Err(msg, name, a, b) == [msg |-> msg, name |-> name, a |-> a, b |-> b]

NoError == Err("", "", 0, 0)

(***************************************************************************)
(* The stack.  An access outside stack[0 .. STACK_MAX-1] is undefined      *)
(* behaviour: oob records that the step made one that still lands in the   *)
(* memory next to the array, wild one that the model cannot follow.        *)
(***************************************************************************)
InStack(i) == i \in 0 .. (STACK_MAX - 1)

StackAt(m, i) == IF i \in StackAddr THEN m.stack[i] ELSE Zero

Touch(m, i) ==
    [m EXCEPT !.oob = @ \/ ~InStack(i), !.wild = @ \/ i \notin StackAddr]

Store(m, i, value) ==
    [Touch(m, i) EXCEPT !.stack = IF i \in StackAddr THEN [@ EXCEPT ![i] = value] ELSE @]

push(m, value) == [Store(m, m.stackTop, value) EXCEPT !.stackTop = @ + 1]

pop(m) == [Touch(m, m.stackTop - 1) EXCEPT !.stackTop = @ - 1]

peek(m, distance) == StackAt(m, m.stackTop - 1 - distance)

resetStack(m) ==
    [m EXCEPT !.stackTop = 0, !.frameCount = 0, !.openUpvalues = << >>]

\* The stack trace runtimeError prints, deepest frame first: <<function, line>>.
StackTrace(m) ==
    [k \in 1 .. m.frameCount |->
        LET frame == m.frames[m.frameCount - k]
        IN  <<m.objects[frame.closure].function, frame.ip - 1>>]

runtimeError(m, err) ==
    resetStack([m EXCEPT !.lastError = err, !.trace = StackTrace(m)])

R(m, ok) == [m |-> m, ok |-> ok]

\* call without the test of frameCount against FRAMES_MAX.
callUnchecked(m, closure, argCount) ==
    IF argCount # FunctionOf(m, closure).arity
    THEN R(runtimeError(m, Err("expected arguments", "", FunctionOf(m, closure).arity, argCount)), FALSE)
    ELSE R([m EXCEPT !.frames = [i \in DOMAIN @ \cup {m.frameCount} |->
                                    IF i # m.frameCount
                                    THEN @[i]
                                    ELSE [closure |-> closure, ip |-> 1,
                                          slots |-> m.stackTop - argCount - 1,
                                          callClosure |-> i \in DOMAIN @ /\ @[i].callClosure]],
                     !.frameCount = @ + 1], TRUE)

\* call without the test of argCount against the function's arity.
callAnyArity(m, closure, argCount) ==
    IF m.frameCount = FRAMES_MAX
    THEN R(runtimeError(m, Err("stack overflow", "", 0, 0)), FALSE)
    ELSE R([m EXCEPT !.frames[m.frameCount] =
                        [@ EXCEPT !.closure = closure, !.ip = 1,
                                  !.slots = m.stackTop - argCount - 1],
                     !.frameCount = @ + 1], TRUE)

call(m, closure, argCount) ==
    IF argCount # FunctionOf(m, closure).arity
    THEN R(runtimeError(m, Err("expected arguments", "", FunctionOf(m, closure).arity, argCount)), FALSE)
    ELSE IF m.frameCount = FRAMES_MAX
    THEN R(runtimeError(m, Err("stack overflow", "", 0, 0)), FALSE)
    ELSE R([m EXCEPT !.frames[m.frameCount] =
                        [@ EXCEPT !.closure = closure, !.ip = 1,
                                  !.slots = m.stackTop - argCount - 1],
                     !.frameCount = @ + 1], TRUE)

\* callValue accepting arguments for a class that has no initializer.
callValueAnyArgs(m, callee, argCount) ==
    IF IS_BOUND_METHOD(m, callee)
    THEN LET bound == m.objects[callee.v]
         IN  call(Store(m, m.stackTop - argCount - 1, bound.receiver), bound.method, argCount)
    ELSE IF IS_CLASS(m, callee)
    THEN LET klass == m.objects[callee.v]
             m1 == Allocate(m, ObjInstance(callee.v, EmptyTable, FALSE))
             m2 == Store(m1, m.stackTop - argCount - 1, OBJ_VAL(NewId(m)))
         IN  IF tableHas(klass.methods, "init")
             THEN call(m2, klass.methods["init"].v, argCount)
             ELSE R(m2, TRUE)
    ELSE IF IS_CLOSURE(m, callee)
    THEN call(m, callee.v, argCount)
    ELSE R(runtimeError(m, Err("only functions and classes are callable", "", 0, 0)), FALSE)

callValue(m, callee, argCount) ==
    IF IS_BOUND_METHOD(m, callee)
    THEN LET bound == m.objects[callee.v]
         IN  call(Store(m, m.stackTop - argCount - 1, bound.receiver), bound.method, argCount)
    ELSE IF IS_CLASS(m, callee)
    THEN LET klass == m.objects[callee.v]
             m1 == Allocate(m, ObjInstance(callee.v, EmptyTable, FALSE))
             m2 == Store(m1, m.stackTop - argCount - 1, OBJ_VAL(NewId(m)))
         IN  IF tableHas(klass.methods, "init")
             THEN call(m2, klass.methods["init"].v, argCount)
             ELSE IF argCount # 0
             THEN R(runtimeError(m2, Err("expected arguments", "", 0, argCount)), FALSE)
             ELSE R(m2, TRUE)
    ELSE IF IS_CLOSURE(m, callee)
    THEN call(m, callee.v, argCount)
    ELSE R(runtimeError(m, Err("only functions and classes are callable", "", 0, 0)), FALSE)

(***************************************************************************)
(* Upvalues.  openUpvalues is the list headed by vm.openUpvalues and       *)
(* threaded through the next fields, as the sequence of its nodes.         *)
(***************************************************************************)
Location(m, upvalue) == m.objects[upvalue].location.at

\* How many nodes a walk from the head passes before the first one whose
\* flag is FALSE (or the end of the list).
WalkWhile(flags) ==
    CHOOSE k \in 0 .. Len(flags) :
        /\ \A j \in 1 .. k : flags[j]
        /\ k = Len(flags) \/ ~flags[k + 1]

\* captureUpvalue without the search for the insertion point: a new upvalue
\* becomes the head of the list.
captureUpvalueAtHead(m, local) ==
    LET list == m.openUpvalues
        k == WalkWhile([j \in 1 .. Len(list) |-> Location(m, list[j]) > local])
    IN  IF k < Len(list) /\ Location(m, list[k + 1]) = local
        THEN [m |-> m, upvalue |-> list[k + 1]]
        ELSE [m |-> [Allocate(m, ObjUpvalue(StackLoc(local), NIL_VAL))
                       EXCEPT !.openUpvalues = <<NewId(m)>> \o list],
              upvalue |-> NewId(m)]

\* captureUpvalue without the test for an upvalue already open on the slot.
captureUpvalueNoReuse(m, local) ==
    LET list == m.openUpvalues
        k == WalkWhile([j \in 1 .. Len(list) |-> Location(m, list[j]) > local])
    IN  [m |-> [Allocate(m, ObjUpvalue(StackLoc(local), NIL_VAL))
                  EXCEPT !.openUpvalues =
                      SubSeq(list, 1, k) \o <<NewId(m)>> \o SubSeq(list, k + 1, Len(list))],
         upvalue |-> NewId(m)]

captureUpvalue(m, local) ==
    LET list == m.openUpvalues
        k == WalkWhile([j \in 1 .. Len(list) |-> Location(m, list[j]) > local])
    IN  IF k < Len(list) /\ Location(m, list[k + 1]) = local
        THEN [m |-> m, upvalue |-> list[k + 1]]
        ELSE [m |-> [Allocate(m, ObjUpvalue(StackLoc(local), NIL_VAL))
                       EXCEPT !.openUpvalues =
                           SubSeq(list, 1, k) \o <<NewId(m)>> \o SubSeq(list, k + 1, Len(list))],
              upvalue |-> NewId(m)]

\* closeUpvalues with > for >=: the upvalue on the slot last itself stays open.
closeUpvaluesAbove(m, last) ==
    LET list == m.openUpvalues
        k == WalkWhile([j \in 1 .. Len(list) |-> Location(m, list[j]) > last])
        closing == {list[j] : j \in 1 .. k}
        objects == m.objects
    IN  [m EXCEPT !.objects =
                      [id \in DOMAIN objects |->
                          IF id \in closing
                          THEN ObjUpvalue(OwnLoc, StackAt(m, objects[id].location.at))
                          ELSE objects[id]],
                  !.openUpvalues = SubSeq(list, k + 1, Len(list))]

closeUpvalues(m, last) ==
    LET list == m.openUpvalues
        k == WalkWhile([j \in 1 .. Len(list) |-> Location(m, list[j]) >= last])
        closing == {list[j] : j \in 1 .. k}
        objects == m.objects
    IN  [m EXCEPT !.objects =
                      [id \in DOMAIN objects |->
                          IF id \in closing
                          THEN ObjUpvalue(OwnLoc, StackAt(m, objects[id].location.at))
                          ELSE objects[id]],
                  !.openUpvalues = SubSeq(list, k + 1, Len(list))]

\* *upvalue->location
ReadUpvalue(m, upvalue) ==
    LET u == m.objects[upvalue]
    IN  IF u.location.own THEN u.closed ELSE StackAt(m, u.location.at)

\* *upvalue->location = value
WriteUpvalue(m, upvalue, value) ==
    LET u == m.objects[upvalue]
    IN  IF u.location.own
        THEN [m EXCEPT !.objects[upvalue].closed = value]
        ELSE Store(m, u.location.at, value)

(***************************************************************************)
(* The state.  cstack holds one record per run() activation, innermost     *)
(* last: run()'s locals frame and ip, and the built-in method that this    *)
(* activation's INVOKE is executing when it called back into the VM.       *)
(***************************************************************************)
NoNative == [kind |-> "none"]

Activation(frameIndex, ipValue) ==
    [frame |-> frameIndex, ip |-> ipValue, native |-> NoNative]

\* invokeList's locals while its filter loop runs, the stack top and frame
\* count at its last entry to runClosure, and what runClosure last yielded.
FilterCall(list, filtered, closure, argCount) ==
    [kind |-> "filter", list |-> list, filtered |-> filtered, closure |-> closure,
     argCount |-> argCount, i |-> 0, entryTop |-> 0, entryCount |-> 0, ret |-> Zero]

InitFrame == [closure |-> 0, ip |-> 0, slots |-> 0, callClosure |-> FALSE]

\* defineNativeInstance, defineNative and defineProperty push the name and
\* the value and then call tableSet(table, AS_STRING(vm.stack[0]), vm.stack[1]):
\* key and value are read at the base of the stack.  Called on an empty stack
\* they are the two values just pushed; otherwise vm.stack[0] is what lies at
\* the base (while run() is active, the script's closure), read as a string.
defineNativeInstance(m, name, instance) ==
    LET m1 == push(push(m, NameVal), OBJ_VAL(instance))
    IN  IF m.stackTop = 0
        THEN pop(pop([m1 EXCEPT !.globals = tableSet(@, name, m1.stack[1])]))
        ELSE pop(pop([m1 EXCEPT !.wild = TRUE]))

defineNative(m, name, arity, klass) ==
    LET m1 == push(push(Allocate(m, [kind |-> "native", arity |-> arity]), NameVal),
                   OBJ_VAL(NewId(m)))
    IN  IF m.stackTop = 0
        THEN pop(pop([m1 EXCEPT !.objects[klass].methods = tableSet(@, name, m1.stack[1])]))
        ELSE pop(pop([m1 EXCEPT !.wild = TRUE]))

defineProperty(m, name, value, instance) ==
    LET m1 == push(push(m, NameVal), value)
    IN  IF m.stackTop = 0
        THEN pop(pop([m1 EXCEPT !.objects[instance].fields = tableSet(@, name, m1.stack[1])]))
        ELSE pop(pop([m1 EXCEPT !.wild = TRUE]))

\* initCoreClass: the core module's class and its singleton, a static instance.
initCoreClass(m) ==
    LET klass == NewId(m)
        m1 == Allocate(m, ObjClass("Core", EmptyTable))
        instance == NewId(m1)
        m2 == Allocate(m1, ObjInstance(klass, EmptyTable, TRUE))
    IN  defineNativeInstance(m2, "core", instance)

\* initVM: static storage, resetStack and empty tables, then the core module.
initVM ==
  initCoreClass(
    [stack |-> [i \in StackAddr |-> Zero],
     stackTop |-> 0,
     frames |-> [i \in 0 .. (FRAMES_MAX - 1) |-> InitFrame],
     frameCount |-> 0,
     openUpvalues |-> << >>,
     objects |-> << >>,
     globals |-> EmptyTable,
     lastError |-> NoError,
     trace |-> << >>,
     oob |-> FALSE,
     wild |-> FALSE,
     frameAccess |-> 0,
     units |-> << >>])

Init ==
    /\ vm = initVM
    /\ cstack = << >>
    /\ pc = "idle"
    /\ result = "NONE"
    /\ interprets = 0

\* The VM at the start of a step: no stray access made yet in this step.
M0 == [vm EXCEPT !.oob = FALSE, !.wild = FALSE]

top == cstack[Len(cstack)]

frame == top.frame

ip == top.ip

Code == FunctionOf(vm, vm.frames[frame].closure).code

Instr == Code[ip]

Running(op) == pc = "run" /\ ip \in DOMAIN Code /\ Instr.op = op

\* A step ends in state m.  A stray stack access either landed next to the
\* array, and execution goes on, or anything at all happens ("undefined").
Finish(m, nextPc, nextCstack, nextResult) ==
    /\ vm' = m
    /\ cstack' = nextCstack
    /\ result' = nextResult
    /\ \/ ~m.wild /\ pc' = nextPc
       \/ (m.oob \/ m.wild) /\ pc' = "undefined"

\* break: on to the next instruction.
Advance(m) ==
    /\ Finish(m, "run", [cstack EXCEPT ![Len(cstack)].ip = ip + 1], result)
    /\ UNCHANGED interprets

\* frame = &vm.frames[vm.frameCount - 1]; ip = frame->ip;
Reload(m) ==
    /\ Finish(m, "run",
              [cstack EXCEPT ![Len(cstack)] =
                  [@ EXCEPT !.frame = m.frameCount - 1,
                            !.ip = m.frames[m.frameCount - 1].ip,
                            !.native = NoNative]],
              result)
    /\ UNCHANGED interprets

\* frame->ip = ip;
Flush(m) == [m EXCEPT !.frames[frame].ip = ip + 1]

\* return INTERPRET_RUNTIME_ERROR; / return INTERPRET_OK;
Return(m, value) ==
    /\ Finish(m, "ret", cstack, value)
    /\ UNCHANGED interprets

\* Raise without `frame->ip = ip`: the frame keeps the pointer last stored.
RaiseUnflushed(m, err) == Return(runtimeError(m, err), "INTERPRET_RUNTIME_ERROR")

\* frame->ip = ip; runtimeError(...); return INTERPRET_RUNTIME_ERROR;
Raise(m, err) == Return(runtimeError(Flush(m), err), "INTERPRET_RUNTIME_ERROR")

\* run()'s entry: frame = &vm.frames[vm.frameCount - 1]; ip = frame->ip.  With
\* frameCount = 0 this reads the record before the frame array.
EnterRun(m) ==
    IF m.frameCount - 1 \in DOMAIN m.frames
    THEN [m |-> m, activation |-> Activation(m.frameCount - 1, m.frames[m.frameCount - 1].ip)]
    ELSE [m |-> [m EXCEPT !.wild = TRUE, !.frameAccess = m.frameCount - 1],
          activation |-> Activation(0, 0)]

Slot(m, index) == m.frames[frame].slots + index

Upvalue(m, index) == m.objects[m.frames[frame].closure].upvalues[index + 1]

\* READ_CONSTANT: a string constant is the object the compiler interned.
ReadConstant(m, constant) ==
    IF constant.t = "str"
    THEN OBJ_VAL(m.units[m.objects[m.frames[frame].closure].unit][constant.v])
    ELSE constant

OP_CONSTANT == Running("CONSTANT") /\ Advance(push(M0, ReadConstant(M0, Instr.a)))

OP_NIL == Running("NIL") /\ Advance(push(M0, NIL_VAL))

OP_POP == Running("POP") /\ Advance(pop(M0))

OP_GET_LOCAL ==
    /\ Running("GET_LOCAL")
    /\ Advance(push(M0, StackAt(M0, Slot(M0, Instr.a))))

OP_GET_GLOBAL ==
    /\ Running("GET_GLOBAL")
    /\ IF ~tableHas(M0.globals, Instr.a)
       THEN Raise(M0, Err("undefined variable", Instr.a, 0, 0))
       ELSE Advance(push(M0, M0.globals[Instr.a]))

OP_DEFINE_GLOBAL ==
    /\ Running("DEFINE_GLOBAL")
    /\ Advance(pop([M0 EXCEPT !.globals = tableSet(@, Instr.a, peek(M0, 0))]))

\* SET_GLOBAL without the tableDelete of the name it just set.
OP_SET_GLOBAL_NoDelete ==
    /\ Running("SET_GLOBAL")
    /\ LET isNew == ~tableHas(M0.globals, Instr.a)
           m1 == [M0 EXCEPT !.globals = tableSet(@, Instr.a, peek(M0, 0))]
       IN  IF isNew
           THEN Raise(m1, Err("undefined variable", Instr.a, 0, 0))
           ELSE Advance(m1)

OP_SET_GLOBAL ==
    /\ Running("SET_GLOBAL")
    /\ LET isNew == ~tableHas(M0.globals, Instr.a)
           m1 == [M0 EXCEPT !.globals = tableSet(@, Instr.a, peek(M0, 0))]
       IN  IF isNew
           THEN Raise([m1 EXCEPT !.globals = tableDelete(@, Instr.a)],
                      Err("undefined variable", Instr.a, 0, 0))
           ELSE Advance(m1)

OP_GET_UPVALUE ==
    /\ Running("GET_UPVALUE")
    /\ Advance(push(M0, ReadUpvalue(M0, Upvalue(M0, Instr.a))))

OP_SET_UPVALUE ==
    /\ Running("SET_UPVALUE")
    /\ Advance(WriteUpvalue(M0, Upvalue(M0, Instr.a), peek(M0, 0)))

OP_ADD ==
    /\ Running("ADD")
    /\ IF IS_STRING(M0, peek(M0, 0)) /\ IS_STRING(M0, peek(M0, 1))
       THEN LET c == concatenate(M0, peek(M0, 1).v, peek(M0, 0).v)
            IN  Advance(push(pop(pop(c.m)), OBJ_VAL(c.string)))
       ELSE IF IS_NUMBER(peek(M0, 0)) /\ IS_NUMBER(peek(M0, 1))
       THEN Advance(push(pop(pop(M0)), NumberOfHalves(peek(M0, 1).v + peek(M0, 0).v)))
       ELSE Raise(M0, Err("operands must be two numbers or two strings", "", 0, 0))

OP_NEGATE ==
    /\ Running("NEGATE")
    /\ IF ~IS_NUMBER(peek(M0, 0))
       THEN Raise(M0, Err("operand must be a number", "", 0, 0))
       ELSE Advance(push(pop(M0), NumberOfHalves(0 - peek(M0, 0).v)))

OP_CALL ==
    /\ Running("CALL")
    /\ LET r == callValue(Flush(M0), peek(M0, Instr.a), Instr.a)
       IN  IF r.ok THEN Reload(r.m) ELSE Return(r.m, "INTERPRET_RUNTIME_ERROR")

RECURSIVE FillUpvalues(_, _, _, _, _)
\* The loop of OP_CLOSURE from index i (0-based) on.
FillUpvalues(m, frameIndex, closure, descriptors, i) ==
    IF i >= Len(m.objects[closure].upvalues)
    THEN m
    ELSE LET isLocal == descriptors[i + 1][1]
             index == descriptors[i + 1][2]
         IN  IF isLocal # 0
             THEN LET c == captureUpvalue(m, m.frames[frameIndex].slots + index)
                  IN  FillUpvalues([c.m EXCEPT !.objects[closure].upvalues[i + 1] = c.upvalue],
                                   frameIndex, closure, descriptors, i + 1)
             ELSE FillUpvalues(
                      [m EXCEPT !.objects[closure].upvalues[i + 1] =
                          m.objects[m.frames[frameIndex].closure].upvalues[index + 1]],
                      frameIndex, closure, descriptors, i + 1)

\* newClosure: every upvalue pointer NULL.
newClosure(m, function, unit) ==
    Allocate(m, ObjClosure(function, unit,
                           [i \in 1 .. FunctionNamed(function).upvalueCount |-> 0]))

OP_CLOSURE ==
    /\ Running("CLOSURE")
    /\ LET closure == NewId(M0)
           m1 == push(newClosure(M0, Instr.a, M0.objects[M0.frames[frame].closure].unit),
                      OBJ_VAL(closure))
       IN  Advance(FillUpvalues(m1, frame, closure, Instr.b, 0))

OP_CLOSE_UPVALUE ==
    /\ Running("CLOSE_UPVALUE")
    /\ Advance(pop(closeUpvalues(M0, M0.stackTop - 1)))

OP_RETURN ==
    /\ Running("RETURN")
    /\ LET value == peek(M0, 0)
           m1 == closeUpvalues(pop(M0), M0.frames[frame].slots)
           m2 == [m1 EXCEPT !.frameCount = @ - 1]
       IN  IF m2.frameCount = 0
           THEN Return(pop(m2), "INTERPRET_OK")
           ELSE IF m2.frames[frame].callClosure
           THEN Return([push(m2, value) EXCEPT !.frames[frame].callClosure = FALSE],
                       "INTERPRET_OK")
           ELSE Reload(push([m2 EXCEPT !.stackTop = m2.frames[frame].slots], value))

OP_BUILD_LIST ==
    /\ Running("BUILD_LIST")
    /\ LET itemCount == Instr.a
           list == NewId(M0)
           items == [k \in 1 .. itemCount |-> peek(M0, itemCount - k)]
           m1 == pop(push(Allocate(M0, ObjList(items)), OBJ_VAL(list)))
           m2 == [m1 EXCEPT !.stackTop = @ - itemCount]
       IN  Advance(push(m2, OBJ_VAL(list)))

OP_CLASS ==
    /\ Running("CLASS")
    /\ Advance(push(Allocate(M0, ObjClass(Instr.a, EmptyTable)), OBJ_VAL(NewId(M0))))

\* defineMethod
OP_METHOD ==
    /\ Running("METHOD")
    /\ LET klass == peek(M0, 1).v
       IN  Advance(pop([M0 EXCEPT !.objects[klass].methods = tableSet(@, Instr.a, peek(M0, 0))]))

\* INHERIT without the copy of the superclass's methods.
OP_INHERIT_NoCopy ==
    /\ Running("INHERIT")
    /\ IF ~IS_CLASS(M0, peek(M0, 1))
       THEN Raise(M0, Err("superclass must be a class", "", 0, 0))
       ELSE Advance(pop(M0))

OP_INHERIT ==
    /\ Running("INHERIT")
    /\ LET superclass == peek(M0, 1)
           subclass == peek(M0, 0).v
       IN  IF ~IS_CLASS(M0, superclass)
           THEN Raise(M0, Err("superclass must be a class", "", 0, 0))
           ELSE Advance(pop([M0 EXCEPT !.objects[subclass].methods =
                                 tableAddAll(M0.objects[superclass.v].methods, @)]))

bindMethod(m, klass, name) ==
    IF ~tableHas(m.objects[klass].methods, name)
    THEN R(runtimeError(m, Err("undefined property", name, 0, 0)), FALSE)
    ELSE LET bound == ObjBoundMethod(peek(m, 0), m.objects[klass].methods[name].v)
         IN  R(push(pop(Allocate(m, bound)), OBJ_VAL(NewId(m))), TRUE)

OP_GET_PROPERTY ==
    /\ Running("GET_PROPERTY")
    /\ IF ~IS_INSTANCE(M0, peek(M0, 0))
       THEN Raise(M0, Err("only instances have properties", "", 0, 0))
       ELSE LET instance == M0.objects[peek(M0, 0).v]
            IN  IF tableHas(instance.fields, Instr.a)
                THEN Advance(push(pop(M0), instance.fields[Instr.a]))
                ELSE LET r == bindMethod(Flush(M0), instance.klass, Instr.a)
                     IN  IF r.ok THEN Advance(r.m)
                         ELSE Return(r.m, "INTERPRET_RUNTIME_ERROR")

\* SET_PROPERTY without the test of the instance's static flag.
OP_SET_PROPERTY_NoStatic ==
    /\ Running("SET_PROPERTY")
    /\ IF ~IS_INSTANCE(M0, peek(M0, 1))
       THEN Raise(M0, Err("only instances have fields", "", 0, 0))
       ELSE LET instance == peek(M0, 1).v
            IN  Advance(push(pop(pop(
                    [M0 EXCEPT !.objects[instance].fields =
                         tableSet(@, Instr.a, peek(M0, 0))])), peek(M0, 0)))

OP_SET_PROPERTY ==
    /\ Running("SET_PROPERTY")
    /\ IF ~IS_INSTANCE(M0, peek(M0, 1))
       THEN Raise(M0, Err("only instances have fields", "", 0, 0))
       ELSE LET instance == peek(M0, 1).v
            IN  IF M0.objects[instance].isStatic
                THEN Raise(M0, Err("cannot modify a constant property", "", 0, 0))
                ELSE Advance(push(pop(pop(
                         [M0 EXCEPT !.objects[instance].fields =
                              tableSet(@, Instr.a, peek(M0, 0))])), peek(M0, 0)))

\* The native branch (isStatic) calls into the core module's natives, which
\* no object of this model has: every instance is made by newInstance(klass, false).
invokeFromClass(m, klass, isStatic, name, argCount) ==
    IF ~tableHas(m.objects[klass].methods, name)
    THEN R(runtimeError(m, Err("undefined property", name, 0, 0)), FALSE)
    ELSE call(m, m.objects[klass].methods[name].v, argCount)

invokeInstance(m, receiver, name, argCount) ==
    LET instance == m.objects[receiver.v]
    IN  IF tableHas(instance.fields, name)
        THEN callValue(Store(m, m.stackTop - argCount - 1, instance.fields[name]),
                       instance.fields[name], argCount)
        ELSE invokeFromClass(m, instance.klass, instance.isStatic, name, argCount)

\* SUPER_INVOKE looking the method up in the receiver's class.
OP_SUPER_INVOKE_Virtual ==
    /\ Running("SUPER_INVOKE")
    /\ LET receiver == peek(M0, Instr.b + 1)
           r == invokeFromClass(pop(Flush(M0)), M0.objects[receiver.v].klass, FALSE,
                                Instr.a, Instr.b)
       IN  IF r.ok THEN Reload(r.m) ELSE Return(r.m, "INTERPRET_RUNTIME_ERROR")

OP_SUPER_INVOKE ==
    /\ Running("SUPER_INVOKE")
    /\ LET superclass == peek(M0, 0).v
           r == invokeFromClass(pop(Flush(M0)), superclass, FALSE, Instr.a, Instr.b)
       IN  IF r.ok THEN Reload(r.m) ELSE Return(r.m, "INTERPRET_RUNTIME_ERROR")

\* invokeList whose insert puts the item at the end of the list.
invokeListAppend(m, receiver, name, argCount) ==
    IF name = "filter"
    THEN IF argCount # 1
         THEN [m |-> runtimeError(m, Err("expected arguments", "", 1, argCount)),
               ok |-> FALSE, native |-> NoNative]
         ELSE IF ~IS_CLOSURE(m, peek(m, argCount - 1))
         THEN [m |-> runtimeError(m, Err("argument 1 must be a closure", "", 0, 0)),
               ok |-> FALSE, native |-> NoNative]
         ELSE LET closure == peek(m, argCount - 1).v
                  m1 == Allocate(m, ObjList(<< >>))
              IN  IF FunctionOf(m, closure).arity # 1
                  THEN [m |-> runtimeError(m1, Err("callback expects 1 argument", "", 1, argCount)),
                        ok |-> FALSE, native |-> NoNative]
                  ELSE [m |-> m1, ok |-> TRUE,
                        native |-> FilterCall(receiver.v, NewId(m), closure, argCount)]
    ELSE IF name = "insert"
    THEN IF argCount # 2
         THEN [m |-> runtimeError(m, Err("expected arguments", "", 2, argCount)),
               ok |-> FALSE, native |-> NoNative]
         ELSE IF ~IS_NUMBER(peek(m, argCount - 1))
         THEN [m |-> runtimeError(m, Err("argument 1 must be a number", "", 0, 0)),
               ok |-> FALSE, native |-> NoNative]
         ELSE LET list == m.objects[receiver.v]
                  number == AS_INT(peek(m, argCount - 1))
                  index == IF number < 0 THEN Len(list.items) + number ELSE number
                  item == peek(m, argCount - 2)
              IN  IF ~isValidListIndex(list, index)
                  THEN [m |-> runtimeError(m, Err("argument 1 is not a valid index", "", 0, 0)),
                        ok |-> FALSE, native |-> NoNative]
                  ELSE [m |-> push([insertToList(m, receiver.v, item, Len(list.items))
                                       EXCEPT !.stackTop = @ - (argCount + 1)], NIL_VAL),
                        ok |-> TRUE, native |-> NoNative]
    ELSE IF name = "remove"
    THEN IF argCount # 1
         THEN [m |-> runtimeError(m, Err("expected arguments", "", 1, argCount)),
               ok |-> FALSE, native |-> NoNative]
         ELSE IF ~IS_NUMBER(peek(m, argCount - 1))
         THEN [m |-> runtimeError(m, Err("argument 1 must be a number", "", 0, 0)),
               ok |-> FALSE, native |-> NoNative]
         ELSE LET list == m.objects[receiver.v]
                  number == AS_INT(peek(m, argCount - 1))
                  index == IF number < 0 THEN Len(list.items) + number ELSE number
              IN  IF ~isValidListIndex(list, index)
                  THEN [m |-> runtimeError(m, Err("argument 1 is not a valid index", "", 0, 0)),
                        ok |-> FALSE, native |-> NoNative]
                  ELSE [m |-> push([deleteFromList(m, receiver.v, index)
                                       EXCEPT !.stackTop = @ - (argCount + 1)], NIL_VAL),
                        ok |-> TRUE, native |-> NoNative]
    ELSE [m |-> runtimeError(m, Err("undefined property", name, 0, 0)),
          ok |-> FALSE, native |-> NoNative]

\* invokeList, up to the first iteration of the filter loop.  ok = FALSE: an
\* error was raised; otherwise native is the loop's state.
invokeList(m, receiver, name, argCount) ==
    IF name = "filter"
    THEN IF argCount # 1
         THEN [m |-> runtimeError(m, Err("expected arguments", "", 1, argCount)),
               ok |-> FALSE, native |-> NoNative]
         ELSE IF ~IS_CLOSURE(m, peek(m, argCount - 1))
         THEN [m |-> runtimeError(m, Err("argument 1 must be a closure", "", 0, 0)),
               ok |-> FALSE, native |-> NoNative]
         ELSE LET closure == peek(m, argCount - 1).v
                  m1 == Allocate(m, ObjList(<< >>))
              IN  IF FunctionOf(m, closure).arity # 1
                  THEN [m |-> runtimeError(m1, Err("callback expects 1 argument", "", 1, argCount)),
                        ok |-> FALSE, native |-> NoNative]
                  ELSE [m |-> m1, ok |-> TRUE,
                        native |-> FilterCall(receiver.v, NewId(m), closure, argCount)]
    ELSE IF name = "insert"
    THEN IF argCount # 2
         THEN [m |-> runtimeError(m, Err("expected arguments", "", 2, argCount)),
               ok |-> FALSE, native |-> NoNative]
         ELSE IF ~IS_NUMBER(peek(m, argCount - 1))
         THEN [m |-> runtimeError(m, Err("argument 1 must be a number", "", 0, 0)),
               ok |-> FALSE, native |-> NoNative]
         ELSE LET list == m.objects[receiver.v]
                  number == AS_INT(peek(m, argCount - 1))
                  index == IF number < 0 THEN Len(list.items) + number ELSE number
                  item == peek(m, argCount - 2)
              IN  IF ~isValidListIndex(list, index)
                  THEN [m |-> runtimeError(m, Err("argument 1 is not a valid index", "", 0, 0)),
                        ok |-> FALSE, native |-> NoNative]
                  ELSE [m |-> push([insertToList(m, receiver.v, item, index)
                                       EXCEPT !.stackTop = @ - (argCount + 1)], NIL_VAL),
                        ok |-> TRUE, native |-> NoNative]
    ELSE IF name = "remove"
    THEN IF argCount # 1
         THEN [m |-> runtimeError(m, Err("expected arguments", "", 1, argCount)),
               ok |-> FALSE, native |-> NoNative]
         ELSE IF ~IS_NUMBER(peek(m, argCount - 1))
         THEN [m |-> runtimeError(m, Err("argument 1 must be a number", "", 0, 0)),
               ok |-> FALSE, native |-> NoNative]
         ELSE LET list == m.objects[receiver.v]
                  number == AS_INT(peek(m, argCount - 1))
                  index == IF number < 0 THEN Len(list.items) + number ELSE number
              IN  IF ~isValidListIndex(list, index)
                  THEN [m |-> runtimeError(m, Err("argument 1 is not a valid index", "", 0, 0)),
                        ok |-> FALSE, native |-> NoNative]
                  ELSE [m |-> push([deleteFromList(m, receiver.v, index)
                                       EXCEPT !.stackTop = @ - (argCount + 1)], NIL_VAL),
                        ok |-> TRUE, native |-> NoNative]
    ELSE [m |-> runtimeError(m, Err("undefined property", name, 0, 0)),
          ok |-> FALSE, native |-> NoNative]

\* invokeString.  Every built-in reads the receiver and its string arguments
\* as C strings.  upper and lower copy the text into length + 1 characters
\* and write a NUL one past them.  A result with the field hang stands for a
\* call that does not return.
invokeString(m, receiver, name, argCount) ==
    LET str == m.objects[receiver.v]
        text == Text(str.chars)
        arg(k) == peek(m, argCount - k)
        argText(k) == Text(m.objects[arg(k).v].chars)
        Yield(mm, value) == R(push([mm EXCEPT !.stackTop = @ - (argCount + 1)], value), TRUE)
        YieldString(t) == Yield(t.m, OBJ_VAL(t.string))
        Arguments(n) == R(runtimeError(m, Err("expected arguments", "", n, argCount)), FALSE)
        NotString(k) == R(runtimeError(m, Err("argument must be a string", "", k, 0)), FALSE)
    IN  IF name = "length"
        THEN IF argCount # 0 THEN Arguments(0) ELSE Yield(m, NUMBER_VAL(str.length))
        ELSE IF name = "indexOf"
        THEN IF argCount # 1 THEN Arguments(1)
             ELSE IF ~IS_STRING(m, arg(1)) THEN NotString(1)
             ELSE Yield(m, NUMBER_VAL(wcsstr(text, argText(1))))
        ELSE IF name = "count"
        THEN IF argCount # 1 THEN Arguments(1)
             ELSE IF ~IS_STRING(m, arg(1)) THEN NotString(1)
             ELSE LET c == count(text, argText(1), 0)
                  IN  Yield([m EXCEPT !.wild = @ \/ c.past], NUMBER_VAL(c.count))
        ELSE IF name = "split"
        THEN IF argCount # 1 THEN Arguments(1)
             ELSE IF ~IS_STRING(m, arg(1)) THEN NotString(1)
             ELSE LET list == NewId(m)
                      tokens == wcstok(text, argText(1))
                      RECURSIVE Insert(_, _)
                      Insert(mm, k) ==
                          IF k > Len(tokens)
                          THEN mm
                          ELSE LET t == takeString(mm, tokens[k] \o <<NUL>>, Len(tokens[k]))
                               IN  Insert(insertToList(t.m, list, OBJ_VAL(t.string),
                                                       Len(t.m.objects[list].items)),
                                          k + 1)
                  IN  Yield(Insert(Allocate(m, ObjList(<< >>)), 1), OBJ_VAL(list))
        ELSE IF name = "replace"
        THEN IF argCount # 2 THEN Arguments(2)
             ELSE IF ~IS_STRING(m, arg(1)) THEN NotString(1)
             ELSE IF ~IS_STRING(m, arg(2)) THEN NotString(2)
             ELSE LET r == replace(text, argText(1), argText(2))
                      m1 == [m EXCEPT !.oob = @ \/ r.over]
                  IN  IF r.hang
                      THEN [m |-> m1, ok |-> FALSE, hang |-> TRUE]
                      ELSE YieldString(takeString(m1, r.buff \o <<NUL>>, Len(r.buff)))
        ELSE IF name \in {"trim", "trimStart", "trimEnd"}
        THEN IF argCount > 1 THEN Arguments(1)
             ELSE IF argCount = 1 /\ ~IS_STRING(m, arg(1)) THEN NotString(1)
             ELSE LET remove == IF argCount = 1 THEN argText(1) ELSE <<NUL>>
                      t == trim(text, remove, name # "trimEnd", name # "trimStart")
                  IN  IF t.null
                      THEN YieldString(takeString([m EXCEPT !.wild = TRUE], <<NUL, NUL>>, 1))
                      ELSE YieldString(takeString(m, t.chars \o <<NUL>>, Len(t.chars)))
        ELSE IF name \in {"upper", "lower"}
        THEN IF argCount # 0
             THEN Arguments(0)
             ELSE LET chars == [k \in 1 .. Len(text) |->
                                   IF name = "upper" THEN towupper(text[k])
                                   ELSE towlower(text[k])] \o <<NUL>>
                                  \o [k \in 1 .. (str.length - Len(text)) |-> NUL]
                  IN  YieldString(takeString([m EXCEPT !.oob = TRUE], chars, str.length + 1))
        ELSE IF name = "substring"
        THEN IF argCount # 2
             THEN Arguments(2)
             ELSE IF ~IS_NUMBER(arg(1))
             THEN R(runtimeError(m, Err("argument 1 must be a number", "", 0, 0)), FALSE)
             ELSE IF ~IS_NUMBER(arg(2))
             THEN R(runtimeError(m, Err("argument 2 must be a number", "", 0, 0)), FALSE)
             ELSE LET b == AS_INT(arg(1))
                      e == AS_INT(arg(2))
                      begin == IF b < 0 THEN str.length + b ELSE b
                      end == IF e < 0 THEN str.length + e ELSE e
                  IN  IF ~isValidStringIndex(str, begin)
                      THEN R(runtimeError(m, Err("argument 1 is not a valid index", "", 0, 0)), FALSE)
                      ELSE IF ~isValidStringIndex(str, end - 1)
                      THEN R(runtimeError(m, Err("argument 2 is not a valid index", "", 0, 0)), FALSE)
                      ELSE IF end < begin
                      THEN R(runtimeError(m, Err("end index before start index", "", 0, 0)), FALSE)
                      ELSE YieldString(takeString(m, SubSeq(str.chars, begin + 1, end) \o <<NUL>>,
                                                  end - begin + 1))
        ELSE R(runtimeError(m, Err("undefined property", name, 0, 0)), FALSE)

\* invoke: dispatch on the receiver.
OP_INVOKE ==
    /\ Running("INVOKE")
    /\ LET receiver == peek(M0, Instr.b)
           m == Flush(M0)
       IN  IF IS_INSTANCE(m, receiver)
           THEN LET r == invokeInstance(m, receiver, Instr.a, Instr.b)
                IN  IF r.ok THEN Reload(r.m) ELSE Return(r.m, "INTERPRET_RUNTIME_ERROR")
           ELSE IF IS_STRING(m, receiver)
           THEN LET r == invokeString(m, receiver, Instr.a, Instr.b)
                IN  IF "hang" \in DOMAIN r
                    THEN Finish(r.m, "hang", cstack, result) /\ UNCHANGED interprets
                    ELSE IF r.ok THEN Reload(r.m) ELSE Return(r.m, "INTERPRET_RUNTIME_ERROR")
           ELSE IF IS_LIST(m, receiver)
           THEN LET r == invokeList(m, receiver, Instr.a, Instr.b)
                IN  IF r.ok /\ r.native = NoNative
                    THEN Reload(r.m)
                    ELSE IF r.ok
                    THEN /\ Finish(r.m, "filter",
                                   [cstack EXCEPT ![Len(cstack)].native = r.native], result)
                         /\ UNCHANGED interprets
                    ELSE Return(r.m, "INTERPRET_RUNTIME_ERROR")
           ELSE Raise(M0, Err("only instances, strings, and lists have methods", "", 0, 0))

OP_INDEX_SUBSCR ==
    /\ Running("INDEX_SUBSCR")
    /\ LET index == peek(M0, 0)
           obj == peek(M0, 1)
           m == pop(pop(M0))
       IN  IF IS_STRING(m, obj)
           THEN LET objString == m.objects[obj.v]
                    number == AS_INT(index)
                    numIndex == IF number < 0 THEN objString.length + number ELSE number
                IN  IF ~IS_NUMBER(index)
                    THEN Raise(m, Err("string index is not a number", "", 0, 0))
                    ELSE IF ~isValidStringIndex(objString, numIndex)
                    THEN Raise(m, Err("string index out of range", "", 0, 0))
                    ELSE LET t == takeString(m, <<indexFromString(objString, numIndex)>>, 1)
                         IN  Advance(push(t.m, OBJ_VAL(t.string)))
           ELSE IF IS_LIST(m, obj)
           THEN LET objList == m.objects[obj.v]
                    number == AS_INT(index)
                    numIndex == IF number < 0 THEN Len(objList.items) + number ELSE number
                IN  IF ~IS_NUMBER(index)
                    THEN Raise(m, Err("list index is not a number", "", 0, 0))
                    ELSE IF ~isValidListIndex(objList, numIndex)
                    THEN Raise(m, Err("list index out of range", "", 0, 0))
                    ELSE Advance(push(m, indexFromList(objList, numIndex)))
           ELSE Raise(m, Err("invalid type to index into", "", 0, 0))

\* The wcslen of an item made by a subscript read runs past its one character.
OP_STORE_SUBSCR ==
    /\ Running("STORE_SUBSCR")
    /\ LET item == peek(M0, 0)
           index == peek(M0, 1)
           obj == peek(M0, 2)
           m == pop(pop(pop(M0)))
       IN  IF IS_STRING(m, obj)
           THEN LET objString == m.objects[obj.v]
                    number == AS_INT(index)
                    numIndex == IF number < 0 THEN objString.length + number ELSE number
                IN  IF ~IS_NUMBER(index)
                    THEN Raise(m, Err("string index is not a number", "", 0, 0))
                    ELSE IF ~IS_STRING(m, item)
                    THEN Raise(m, Err("only characters can be stored in a string", "", 0, 0))
                    ELSE IF ~isValidStringIndex(objString, numIndex)
                    THEN Raise(m, Err("invalid string index", "", 0, 0))
                    ELSE LET chars == m.objects[item.v].chars
                             m1 == [m EXCEPT !.oob = @ \/ wcslen(chars) = Len(chars)]
                         IN  IF wcslen(chars) # 1
                             THEN Raise(m1, Err("expected a string of length 1", "", 1,
                                                wcslen(chars)))
                             ELSE Advance(push(storeToString(m1, obj.v, numIndex, chars[1]),
                                               item))
           ELSE IF IS_LIST(m, obj)
           THEN LET objList == m.objects[obj.v]
                    number == AS_INT(index)
                    numIndex == IF number < 0 THEN Len(objList.items) + number ELSE number
                IN  IF ~IS_NUMBER(index)
                    THEN Raise(m, Err("list index is not a number", "", 0, 0))
                    ELSE IF ~isValidListIndex(objList, numIndex)
                    THEN Raise(m, Err("invalid list index", "", 0, 0))
                    ELSE Advance(push(storeToList(m, obj.v, numIndex, item), item))
           ELSE Raise(m, Err("cannot store value: not a string or list", "", 0, 0))

(***************************************************************************)
(* runClosure(closure, &ret, args, argCount), in two halves around run():  *)
(* push the arguments, call (its result is not looked at), mark the frame  *)
(* vm.frames[vm.frameCount - 1] as a callback and enter run(); after run() *)
(* returns, pop the value and drop the arguments.                          *)
(***************************************************************************)
runClosureEnter(m, closure, args) ==
    LET RECURSIVE PushAll(_, _)
        PushAll(mm, i) == IF i > Len(args) THEN mm ELSE PushAll(push(mm, args[i]), i + 1)
        m1 == call(PushAll(m, 1), closure, Len(args)).m
    IN  IF m1.frameCount - 1 \in DOMAIN m1.frames
        THEN EnterRun([m1 EXCEPT !.frames[m1.frameCount - 1].callClosure = TRUE])
        ELSE EnterRun([m1 EXCEPT !.wild = TRUE, !.frameAccess = m1.frameCount - 1])

runClosureExit(m, argCount) ==
    [m |-> [pop(m) EXCEPT !.stackTop = @ - argCount], value |-> peek(m, 0)]

\* The filter loop of invokeList: its test, and either the next call of
\* runClosure or the end of the built-in, back in OP_INVOKE.
FilterLoop ==
    /\ pc = "filter"
    /\ UNCHANGED interprets
    /\ LET native == top.native
           items == M0.objects[native.list].items
       IN  IF native.i < Len(items)
           THEN LET e == runClosureEnter(M0, native.closure, <<items[native.i + 1]>>)
                IN  Finish(e.m, "run",
                           Append([cstack EXCEPT ![Len(cstack)].native =
                                      [native EXCEPT !.entryTop = M0.stackTop,
                                                     !.entryCount = M0.frameCount]],
                                  e.activation),
                           result)
           ELSE Reload(push([M0 EXCEPT !.stackTop = @ - (native.argCount + 1)],
                            OBJ_VAL(native.filtered)))

\* run() returned into runClosure, which returns into the filter loop.
RunClosureReturn ==
    /\ pc = "ret"
    /\ Len(cstack) > 1
    /\ UNCHANGED interprets
    /\ LET caller == cstack[Len(cstack) - 1]
           native == caller.native
           x == runClosureExit(M0, 1)
           items == x.m.objects[native.list].items
           kept == IF isFalsey(x.value) \/ native.i >= Len(items)
                   THEN x.m
                   ELSE [x.m EXCEPT !.objects[native.filtered].items =
                                        Append(@, items[native.i + 1])]
           callers == SubSeq(cstack, 1, Len(cstack) - 1)
       IN  IF result # "INTERPRET_OK"
           THEN Finish(x.m, "ret",
                       [callers EXCEPT ![Len(callers)].native = [native EXCEPT !.ret = x.value]],
                       "INTERPRET_RUNTIME_ERROR")
           ELSE Finish(kept, "filter",
                       [callers EXCEPT ![Len(callers)].native =
                           [native EXCEPT !.ret = x.value, !.i = @ + 1]],
                       result)

\* compile(source): the string constants of the source's chunks are interned
\* in the order the compiler meets them.
compile(m, script) ==
    LET constants == StringConstants(script)
        RECURSIVE Intern(_, _, _)
        Intern(mm, pool, k) ==
            IF k > Len(constants)
            THEN [mm EXCEPT !.units = Append(@, pool)]
            ELSE LET c == takeString(mm, constants[k] \o <<NUL>>, Len(constants[k]))
                 IN  Intern(c.m, Append(pool, c.string), k + 1)
    IN  Intern(m, << >>, 1)

(***************************************************************************)
(* interpret(source): compile, wrap the function in a closure, call it and *)
(* run.  call's result is not looked at; run() then reads                  *)
(* vm.frames[vm.frameCount - 1].                                           *)
(***************************************************************************)
interpret(script) ==
    /\ pc = "idle"
    /\ interprets < MaxInterprets
    /\ interprets' = interprets + 1
    /\ LET m0 == compile(M0, script)
           closure == NewId(m0)
           m1 == pop(newClosure(push(m0, FunctionVal), script, Len(m0.units)))
           m2 == call(push(m1, OBJ_VAL(closure)), closure, 0).m
           e == EnterRun(m2)
       IN  Finish(e.m, "run", <<e.activation>>, "NONE")

Interpret == \E script \in Scripts : interpret(script)

\* run() returned to interpret(), which returns its result to the driver.
InterpretReturn ==
    /\ pc = "ret"
    /\ Len(cstack) = 1
    /\ Finish(M0, "idle", << >>, result)
    /\ UNCHANGED interprets

Next ==
    \/ Interpret
    \/ InterpretReturn
    \/ OP_CONSTANT
    \/ OP_NIL
    \/ OP_POP
    \/ OP_GET_LOCAL
    \/ OP_GET_GLOBAL
    \/ OP_DEFINE_GLOBAL
    \/ OP_SET_GLOBAL
    \/ OP_GET_UPVALUE
    \/ OP_SET_UPVALUE
    \/ OP_ADD
    \/ OP_NEGATE
    \/ OP_CALL
    \/ OP_CLOSURE
    \/ OP_CLOSE_UPVALUE
    \/ OP_RETURN
    \/ OP_BUILD_LIST
    \/ OP_INDEX_SUBSCR
    \/ OP_STORE_SUBSCR
    \/ OP_CLASS
    \/ OP_METHOD
    \/ OP_INHERIT
    \/ OP_GET_PROPERTY
    \/ OP_SET_PROPERTY
    \/ OP_SUPER_INVOKE
    \/ OP_INVOKE
    \/ FilterLoop
    \/ RunClosureReturn

Spec == Init /\ [][Next]_vars

(***************************************************************************)
(* The string built-ins on their own: invoke() finds the receiver and the  *)
(* arguments on top of the stack and hands them to invokeString.  Texts    *)
(* are the strings of at most MaxLen characters over Alphabet.             *)
(***************************************************************************)
MaxLen == 3

Alphabet == {"a", "b", " "}

Texts(n) == UNION {[1 .. k -> Alphabet] : k \in 0 .. n}

TextArg(text) == [t |-> "text", v |-> text]

\* The argument lists tried: none, one string, two strings, two numbers.
BuiltinArguments ==
    {<< >>}
      \cup {<<TextArg(a)>> : a \in Texts(MaxLen - 1)}
      \cup {<<TextArg(a), TextArg(b)>> : a \in Texts(MaxLen - 1), b \in Texts(MaxLen - 1)}
      \cup {<<NUMBER_VAL(b), NUMBER_VAL(e)>> :
               b \in (0 - MaxLen - 1) .. (MaxLen + 1), e \in (0 - MaxLen - 1) .. (MaxLen + 1)}

StringMethods ==
    {"length", "indexOf", "count", "split", "replace", "trim", "trimStart", "trimEnd",
     "upper", "lower", "substring"}

\* The VM with the receiver and the arguments pushed, strings interned.
AtInvoke(receiver, args) ==
    LET values == <<TextArg(receiver)>> \o args
        RECURSIVE PushAll(_, _)
        PushAll(m, k) ==
            IF k > Len(values)
            THEN m
            ELSE IF values[k].t = "text"
            THEN LET t == takeString(m, values[k].v \o <<NUL>>, Len(values[k].v))
                 IN  PushAll(push(t.m, OBJ_VAL(t.string)), k + 1)
            ELSE PushAll(push(m, values[k]), k + 1)
    IN  PushAll(initVM, 1)

\* Every receiver with every argument list, and "banana".replace("na", "XY").
BuiltinInit ==
    /\ \/ \E receiver \in Texts(MaxLen), args \in BuiltinArguments :
             vm = AtInvoke(receiver, args)
       \/ vm = AtInvoke(<<"b", "a", "n", "a", "n", "a">>,
                        <<TextArg(<<"n", "a">>), TextArg(<<"X", "Y">>)>>)
    /\ cstack = << >>
    /\ pc = "builtin"
    /\ result = "NONE"
    /\ interprets = 0

\* invoke(name, argCount) on a string receiver.
Builtin ==
    /\ pc = "builtin"
    /\ UNCHANGED interprets
    /\ \E name \in StringMethods :
          LET argCount == vm.stackTop - 1
              r == invokeString(M0, peek(M0, argCount), name, argCount)
              called == <<[Activation(0, 0) EXCEPT
                              !.native = [kind |-> name, argCount |-> argCount]]>>
          IN  IF "hang" \in DOMAIN r
              THEN Finish(r.m, "hang", called, result)
              ELSE Finish(r.m, "built", called,
                          IF r.ok THEN "INTERPRET_OK" ELSE "INTERPRET_RUNTIME_ERROR")

StringSpec == BuiltinInit /\ [][Builtin]_vars

(***************************************************************************)
(* Properties of the VM.                                                   *)
(***************************************************************************)

\* C1: whenever interpret has returned INTERPRET_RUNTIME_ERROR the VM is fully
\* reset: stackTop is the stack base, frameCount is 0 and the open-upvalue
\* list is empty, whatever the error site, a callback run by runClosure
\* included.
ResetAfterRuntimeError ==
    (pc = "idle" /\ result = "INTERPRET_RUNTIME_ERROR")
        => (vm.stackTop = 0 /\ vm.frameCount = 0 /\ vm.openUpvalues = << >>)

\* C2: in every state, across interpret calls too, each upvalue of a closure
\* reachable through a global is either closed, or open on a stack slot below
\* stackTop that belongs to an active call frame.
ReachableUpvaluesLive ==
    \A name \in DOMAIN vm.globals :
        IS_CLOSURE(vm, vm.globals[name]) =>
            \A i \in DOMAIN vm.objects[vm.globals[name].v].upvalues :
                LET upvalue == vm.objects[vm.objects[vm.globals[name].v].upvalues[i]]
                IN  \/ upvalue.location.own
                    \/ /\ upvalue.location.at < vm.stackTop
                       /\ \E f \in 0 .. (vm.frameCount - 1) :
                              upvalue.location.at >= vm.frames[f].slots

\* C3: the open-upvalue list holds open upvalues only, in strictly descending
\* order of the stack slot they point at, so no slot appears twice.
OpenUpvaluesDescending ==
    /\ \A i \in 1 .. Len(vm.openUpvalues) :
           ~vm.objects[vm.openUpvalues[i]].location.own
    /\ \A i, j \in 1 .. Len(vm.openUpvalues) :
           i < j => Location(vm, vm.openUpvalues[i]) > Location(vm, vm.openUpvalues[j])

\* C3 witness: three upvalues open at once, the last one captured between
\* the other two (share: a, then c, then b).
ThreeOpenUpvalues ==
    /\ Len(vm.openUpvalues) = 3
    /\ vm.openUpvalues[2] > vm.openUpvalues[1]

\* C4: CLOSURE capturing a local slot that already has an open upvalue stores
\* that very upvalue in the new closure and leaves one upvalue per slot in the
\* list; a value written by SET_UPVALUE is what a read through the same
\* upvalue gives, open or closed; hence, in a VM that has raised no runtime
\* error so far, a script that has run to its last RETURN got 1, 2, 3 from the
\* counter closure called three times, and its mix read what setB wrote (7
\* with b on the stack, 8 after b was closed).
SharedUpvalue ==
    [][ /\ Running("CLOSURE") =>
            \A i \in 1 .. Len(Instr.b) :
                Instr.b[i][1] # 0 =>
                    LET local == Slot(vm, Instr.b[i][2])
                        new == vm'.objects[NewId(vm)].upvalues[i]
                    IN  /\ \A j \in 1 .. Len(vm.openUpvalues) :
                               Location(vm, vm.openUpvalues[j]) = local
                                   => new = vm.openUpvalues[j]
                        /\ vm'.objects[new].location = StackLoc(local)
                        /\ Cardinality({j \in 1 .. Len(vm'.openUpvalues) :
                               Location(vm', vm'.openUpvalues[j]) = local}) = 1
        /\ Running("SET_UPVALUE") =>
               ReadUpvalue(vm', Upvalue(vm, Instr.a)) = peek(vm, 0)
        /\ LET finished(script) ==
                   /\ pc' = "ret" /\ result' = "INTERPRET_OK"
                   /\ Len(cstack') = 1 /\ cstack'[1].frame = 0
                   /\ vm'.frameCount = 0
                   /\ vm'.lastError = NoError
                   /\ vm'.objects[vm'.frames[0].closure].function = script
           IN  /\ finished("S_counter") =>
                      /\ vm'.globals["r1"] = NUMBER_VAL(1)
                      /\ vm'.globals["r2"] = NUMBER_VAL(2)
                      /\ vm'.globals["r3"] = NUMBER_VAL(3)
               /\ finished("S_share") =>
                      /\ vm'.globals["seen"] = NUMBER_VAL(7)
                      /\ vm'.globals["after"] = NUMBER_VAL(8) ]_vars

\* C4 witness: two closures hold one and the same upvalue, now closed, and the
\* value one of them wrote after the close was read by the other.
SharedClosedUpvalue ==
    /\ tableHas(vm.globals, "after")
    /\ IS_CLOSURE(vm, vm.globals["mixG"])
    /\ IS_CLOSURE(vm, vm.globals["setG"])
    /\ LET mix == vm.objects[vm.globals["mixG"].v]
           setB == vm.objects[vm.globals["setG"].v]
       IN  /\ mix.upvalues[3] = setB.upvalues[1]
           /\ vm.objects[mix.upvalues[3]] = ObjUpvalue(OwnLoc, NUMBER_VAL(4))

\* C5: a RETURN (with last = the frame's slot base) or CLOSE_UPVALUE (with
\* last = the top slot) step closes exactly the open upvalues at or above
\* last: each gets the value its slot held at that moment and points at its own
\* closed field, and leaves the list; the upvalues below last are untouched and
\* stay in the list.
CloseUpvaluesExact ==
    [][ (Running("RETURN") \/ Running("CLOSE_UPVALUE")) =>
            LET last == IF Running("RETURN") THEN vm.frames[frame].slots
                        ELSE vm.stackTop - 1
                after == {vm'.openUpvalues[j] : j \in 1 .. Len(vm'.openUpvalues)}
            IN  \A j \in 1 .. Len(vm.openUpvalues) :
                    LET upvalue == vm.openUpvalues[j]
                    IN  IF Location(vm, upvalue) >= last
                        THEN /\ vm'.objects[upvalue] =
                                    ObjUpvalue(OwnLoc, StackAt(vm, Location(vm, upvalue)))
                             /\ upvalue \notin after
                        ELSE /\ vm'.objects[upvalue] = vm.objects[upvalue]
                             /\ upvalue \in after ]_vars

\* C5 witness: CLOSE_UPVALUE has closed the upvalue of c over its value 3 while
\* the upvalues of b and a, lower on the stack, are still open.
ClosedAboveOpenBelow ==
    /\ Len(vm.openUpvalues) = 2
    /\ \E id \in DOMAIN vm.objects :
           /\ vm.objects[id] = ObjUpvalue(OwnLoc, NUMBER_VAL(3))
           /\ \A j \in 1 .. 2 : Location(vm, vm.openUpvalues[j]) < 3

\* C6: when the run() that runClosure started returns INTERPRET_OK, runClosure
\* yields the callback's return value and leaves stackTop and frameCount as
\* they were before it pushed the arguments, whatever the callback did.
RunClosureRestores ==
    [][ (pc = "ret" /\ Len(cstack) > 1 /\ result = "INTERPRET_OK") =>
            LET native == cstack[Len(cstack) - 1].native
            IN  /\ vm'.stackTop = native.entryTop
                /\ vm'.frameCount = native.entryCount
                /\ cstack'[Len(cstack')].native.ret = peek(vm, 0) ]_vars

\* C7: runClosure invoked with frameCount = FRAMES_MAX reports the error and
\* returns INTERPRET_RUNTIME_ERROR, without entering the dispatch loop and
\* without an access to a frame record outside vm.frames.
RunClosureChecksCall ==
    [][ (/\ pc = "filter"
         /\ top.native.i < Len(vm.objects[top.native.list].items)
         /\ vm.frameCount = FRAMES_MAX) =>
            /\ pc' = "ret"
            /\ result' = "INTERPRET_RUNTIME_ERROR"
            /\ ~vm'.wild
            /\ vm'.frameAccess \in DOMAIN vm.frames ]_vars

\* C8: in every state stackTop lies within the stack array, from its base to
\* base + STACK_MAX.
StackTopInBounds == vm.stackTop \in 0 .. STACK_MAX

\* C9: frameCount never exceeds FRAMES_MAX; a call of a closure with the
\* argument count it declares (by CALL, or by runClosure for a filter callback),
\* attempted with frameCount = FRAMES_MAX, raises "stack overflow" and pushes
\* no frame: no frame record is filled in and frameCount does not grow.
FrameCountBounded ==
    [][ /\ vm'.frameCount <= FRAMES_MAX
        /\ (/\ vm.frameCount = FRAMES_MAX
            /\ \/ /\ Running("CALL")
                  /\ IS_CLOSURE(vm, peek(vm, Instr.a))
                  /\ FunctionOf(vm, peek(vm, Instr.a).v).arity = Instr.a
               \/ /\ pc = "filter"
                  /\ top.native.i < Len(vm.objects[top.native.list].items)) =>
               /\ vm'.lastError = Err("stack overflow", "", 0, 0)
               /\ vm'.frameCount = 0
               /\ DOMAIN vm'.frames = DOMAIN vm.frames
               /\ \A i \in DOMAIN vm.frames :
                      /\ vm'.frames[i].closure = vm.frames[i].closure
                      /\ vm'.frames[i].slots = vm.frames[i].slots ]_vars

\* C9 witness: the recursion reached FRAMES_MAX frames and the next call
\* raised the error, which reset the frames.
StackOverflowRaised ==
    /\ vm.lastError = Err("stack overflow", "", 0, 0)
    /\ Len(vm.trace) = FRAMES_MAX
    /\ vm.frameCount = 0

\* C10: every step that pushes a frame (CALL on a closure, class or bound
\* method, INVOKE, SUPER_INVOKE, runClosure, interpret) sets its slot base to
\* the slot just below the first argument, and that slot holds the callee
\* closure for a plain call and the receiver instance for a method or
\* constructor call.
FrameBaseHoldsCallee ==
    [][ (vm'.frameCount = vm.frameCount + 1 /\ vm.frameCount \in DOMAIN vm'.frames) =>
            LET pushed == vm'.frames[vm.frameCount]
                base == StackAt(vm', pushed.slots)
                onReceiver ==
                    \/ Running("SUPER_INVOKE")
                    \/ /\ Running("INVOKE")
                       /\ IS_INSTANCE(vm, peek(vm, Instr.b))
                       /\ ~tableHas(vm.objects[peek(vm, Instr.b).v].fields, Instr.a)
                    \/ /\ Running("CALL")
                       /\ \/ IS_CLASS(vm, peek(vm, Instr.a))
                          \/ IS_BOUND_METHOD(vm, peek(vm, Instr.a))
            IN  /\ pushed.slots = vm'.stackTop - FunctionOf(vm', pushed.closure).arity - 1
                /\ IF onReceiver
                   THEN IS_INSTANCE(vm', base)
                   ELSE base = OBJ_VAL(pushed.closure) ]_vars
(***************************************************************************)
(* C11.  A CALL whose callee is a closure taking another number of         *)
(* arguments than were passed raises "expected N arguments, got M" and     *)
(* pushes no frame: the frame count is reset with the stack and no frame   *)
(* record changes but for the saved ip of the running frame.  A CALL whose *)
(* callee is neither a closure, a class nor a bound method raises "only    *)
(* functions and classes are callable".                                    *)
(***************************************************************************)
CallChecksArity ==
    [][ Running("CALL") =>
          LET argCount == Instr.a
              callee == peek(vm, argCount)
          IN  /\ (IS_CLOSURE(vm, callee) /\ FunctionOf(vm, callee.v).arity # argCount) =>
                    /\ vm'.lastError =
                          Err("expected arguments", "", FunctionOf(vm, callee.v).arity, argCount)
                    /\ result' = "INTERPRET_RUNTIME_ERROR"
                    /\ pc' = "ret"
                    /\ vm'.frameCount = 0
                    /\ vm'.frames = [vm.frames EXCEPT ![frame].ip = ip + 1]
              /\ (~IS_CLOSURE(vm, callee) /\ ~IS_CLASS(vm, callee)
                      /\ ~IS_BOUND_METHOD(vm, callee)) =>
                    /\ vm'.lastError = Err("only functions and classes are callable", "", 0, 0)
                    /\ result' = "INTERPRET_RUNTIME_ERROR"
                    /\ pc' = "ret"
                    /\ vm'.frameCount = 0 ]_vars

\* keep(), a function of one parameter called with none, has raised.
ArityMismatchRaised ==
    /\ pc = "ret"
    /\ result = "INTERPRET_RUNTIME_ERROR"
    /\ vm.lastError = Err("expected arguments", "", 1, 0)
    /\ vm.trace = << <<"S_arity", 2>> >>
    /\ vm.frameCount = 0

(***************************************************************************)
(* C12.  INVOKE of name on an instance: when name is a field whose value   *)
(* is callable the call goes to the field's value; in every other case,    *)
(* a field holding a non-callable value included, the method name of the   *)
(* instance's class is called with the instance in slot 0.                 *)
(***************************************************************************)
InvokeFallsBackToMethod ==
    [][ (Running("INVOKE") /\ IS_INSTANCE(vm, peek(vm, Instr.b))) =>
          LET name == Instr.a
              argCount == Instr.b
              instance == vm.objects[peek(vm, argCount).v]
              value == instance.fields[name]
              callable == /\ tableHas(instance.fields, name)
                          /\ \/ IS_CLOSURE(vm, value)
                             \/ IS_CLASS(vm, value)
                             \/ IS_BOUND_METHOD(vm, value)
          IN  IF callable
              THEN vm' = callValue(Store(Flush(M0), vm.stackTop - argCount - 1, value),
                                   value, argCount).m
              ELSE vm' = invokeFromClass(Flush(M0), instance.klass, instance.isStatic,
                                         name, argCount).m ]_vars

(***************************************************************************)
(* C13.  A CALL of a class stores a new instance of the class in the       *)
(* callee's slot.  With an init method, init is called on the arguments,   *)
(* its arity checked; without one, a call with arguments is an error and a *)
(* call without arguments goes on in the running frame: no frame is        *)
(* pushed.                                                                 *)
(***************************************************************************)
CallOfClass ==
    [][ (Running("CALL") /\ IS_CLASS(vm, peek(vm, Instr.a))) =>
          LET argCount == Instr.a
              klass == peek(vm, argCount).v
              methods == vm.objects[klass].methods
              instance == NewId(vm)
              slot == vm.stackTop - argCount - 1
              raised(err) == /\ vm'.lastError = err
                             /\ result' = "INTERPRET_RUNTIME_ERROR"
                             /\ vm'.frameCount = 0
          IN  /\ vm'.objects = Append(vm.objects, ObjInstance(klass, EmptyTable, FALSE))
              /\ slot \in StackAddr => vm'.stack[slot] = OBJ_VAL(instance)
              /\ IF tableHas(methods, "init")
                 THEN LET init == methods["init"].v
                          arity == FunctionOf(vm, init).arity
                      IN  /\ arity # argCount =>
                                raised(Err("expected arguments", "", arity, argCount))
                          /\ (arity = argCount /\ vm.frameCount < FRAMES_MAX) =>
                                /\ vm'.frameCount = vm.frameCount + 1
                                /\ vm'.frames[vm.frameCount].closure = init
                                /\ vm'.frames[vm.frameCount].slots = slot
                                /\ vm'.stackTop = vm.stackTop
                                /\ cstack'[Len(cstack')].frame = vm.frameCount
                                /\ cstack'[Len(cstack')].ip = 1
                 ELSE IF argCount # 0
                 THEN raised(Err("expected arguments", "", 0, argCount))
                 ELSE /\ vm'.frameCount = vm.frameCount
                      /\ vm'.frames = [vm.frames EXCEPT ![frame].ip = ip + 1]
                      /\ vm'.stackTop = vm.stackTop
                      /\ vm'.lastError = vm.lastError
                      /\ cstack' = [cstack EXCEPT ![Len(cstack)].ip = ip + 1] ]_vars

\* P(), a class without init called without arguments, went on in the script's
\* frame and its instance was bound to p.
InstanceWithoutInit ==
    /\ pc = "run"
    /\ vm.frameCount = 1
    /\ tableHas(vm.globals, "p")
    /\ IS_INSTANCE(vm, vm.globals["p"])
    /\ vm.objects[vm.objects[vm.globals["p"].v].klass].name = "P"
    /\ ~tableHas(vm.objects[vm.objects[vm.globals["p"].v].klass].methods, "init")
    /\ vm.objects[vm.globals["p"].v].fields = EmptyTable

(***************************************************************************)
(* C14.  SUPER_INVOKE pops the superclass S and calls S's method of the    *)
(* given name with the current receiver in slot 0, whatever the receiver's *)
(* own class defines under that name; a name S has no method for is a      *)
(* runtime error.  In a VM that has raised no error, Derived().greet()     *)
(* with greet() { return super.greet() + "B"; } over Base's                *)
(* greet() { return "A"; } yields "AB".                                    *)
(***************************************************************************)
SuperInvokeCallsSuperclass ==
    [][ /\ Running("SUPER_INVOKE") =>
          LET name == Instr.a
              argCount == Instr.b
              methods == vm.objects[peek(vm, 0).v].methods
              slot == vm.stackTop - argCount - 2
          IN  IF ~tableHas(methods, name)
              THEN /\ vm'.lastError = Err("undefined property", name, 0, 0)
                   /\ result' = "INTERPRET_RUNTIME_ERROR"
                   /\ pc' = "ret"
              ELSE (FunctionOf(vm, methods[name].v).arity = argCount
                        /\ vm.frameCount < FRAMES_MAX) =>
                   /\ vm'.stackTop = vm.stackTop - 1
                   /\ vm'.frameCount = vm.frameCount + 1
                   /\ vm'.frames[vm.frameCount].closure = methods[name].v
                   /\ vm'.frames[vm.frameCount].slots = slot
                   /\ slot \in StackAddr => vm'.stack[slot] = vm.stack[slot]
                   /\ cstack'[Len(cstack')].frame = vm.frameCount
                   /\ cstack'[Len(cstack')].ip = 1
        /\ (Running("DEFINE_GLOBAL") /\ Instr.a = "greeting" /\ vm.lastError = NoError) =>
              /\ IS_STRING(vm, peek(vm, 0))
              /\ vm.objects[peek(vm, 0).v].length = 2
              /\ vm.objects[peek(vm, 0).v].chars = <<"A", "B", NUL>>
              /\ vm'.globals["greeting"] = peek(vm, 0) ]_vars

\* Base's greet runs on an instance of Derived, called from Derived's greet.
SuperGreetRuns ==
    /\ pc = "run"
    /\ vm.frameCount = 3
    /\ frame = 2
    /\ vm.objects[vm.frames[1].closure].function = "Derived_greet"
    /\ vm.objects[vm.frames[2].closure].function = "Base_greet"
    /\ IS_INSTANCE(vm, vm.stack[vm.frames[2].slots])
    /\ vm.objects[vm.objects[vm.stack[vm.frames[2].slots].v].klass].name = "Derived"
    /\ tableHas(vm.objects[vm.objects[vm.stack[vm.frames[2].slots].v].klass].methods, "greet")

(***************************************************************************)
(* C15, as stated.  INHERIT with a class as superclass copies every entry  *)
(* of the parent's method table into the child's and pops the parent from  *)
(* the stack: of the two classes the child is the one left on it.          *)
(***************************************************************************)
InheritPopsParent ==
    [][ (Running("INHERIT") /\ IS_CLASS(vm, peek(vm, 1))) =>
          LET parent == peek(vm, 1)
              child == peek(vm, 0)
          IN  /\ \A name \in DOMAIN vm.objects[parent.v].methods :
                    /\ tableHas(vm'.objects[child.v].methods, name)
                    /\ vm'.objects[child.v].methods[name] = vm.objects[parent.v].methods[name]
              /\ vm'.stackTop = vm.stackTop - 1
              /\ peek(vm', 0) = child ]_vars

(***************************************************************************)
(* C15, amended.  INHERIT with a class as superclass copies every entry of *)
(* the parent's method table into the child's, keeps the child's other     *)
(* entries, and pops the child from the stack, leaving the parent on it; a *)
(* METHOD executed afterwards sets the entry of its name in the class      *)
(* below the closure, replacing a copy, and leaves the other entries.  A   *)
(* superclass value that is not a class is a runtime error.                *)
(***************************************************************************)
InheritCopiesMethods ==
    [][ /\ Running("INHERIT") =>
          LET parent == peek(vm, 1)
              child == peek(vm, 0)
          IN  IF IS_CLASS(vm, parent)
              THEN /\ \A name \in DOMAIN vm.objects[parent.v].methods :
                         /\ tableHas(vm'.objects[child.v].methods, name)
                         /\ vm'.objects[child.v].methods[name] =
                               vm.objects[parent.v].methods[name]
                   /\ \A name \in DOMAIN vm.objects[child.v].methods
                                     \ DOMAIN vm.objects[parent.v].methods :
                         /\ tableHas(vm'.objects[child.v].methods, name)
                         /\ vm'.objects[child.v].methods[name] =
                               vm.objects[child.v].methods[name]
                   /\ DOMAIN vm'.objects[child.v].methods =
                         DOMAIN vm.objects[child.v].methods
                             \cup DOMAIN vm.objects[parent.v].methods
                   /\ vm'.stackTop = vm.stackTop - 1
                   /\ peek(vm', 0) = parent
                   /\ vm'.lastError = vm.lastError
              ELSE /\ vm'.lastError = Err("superclass must be a class", "", 0, 0)
                   /\ result' = "INTERPRET_RUNTIME_ERROR"
                   /\ pc' = "ret"
                   /\ vm'.objects = vm.objects
        /\ (Running("METHOD") /\ IS_CLASS(vm, peek(vm, 1))) =>
              LET klass == peek(vm, 1).v
              IN  /\ DOMAIN vm'.objects[klass].methods =
                        DOMAIN vm.objects[klass].methods \cup {Instr.a}
                  /\ vm'.objects[klass].methods[Instr.a] = peek(vm, 0)
                  /\ \A name \in DOMAIN vm.objects[klass].methods \ {Instr.a} :
                        vm'.objects[klass].methods[name] = vm.objects[klass].methods[name] ]_vars

\* Derived has inherited Base's greet and then overridden it; Base is the
\* value INHERIT left on the stack, in the slot of the local super.
InheritedAndOverridden ==
    /\ pc = "run"
    /\ Running("CLOSE_UPVALUE")
    /\ IS_CLASS(vm, peek(vm, 0))
    /\ vm.objects[peek(vm, 0).v].name = "Base"
    /\ tableHas(vm.globals, "Derived")
    /\ IS_CLASS(vm, vm.globals["Derived"])
    /\ DOMAIN vm.objects[vm.globals["Derived"].v].methods = {"greet", "bad"}
    /\ vm.objects[vm.objects[vm.globals["Derived"].v].methods["greet"].v].function
          = "Derived_greet"

(***************************************************************************)
(* C16.  SET_GLOBAL of a name that is not defined raises a runtime error   *)
(* and leaves the globals as they were: the name is still undefined, so a  *)
(* later GET_GLOBAL or SET_GLOBAL of it raises again, and every other      *)
(* global keeps its value.  SET_GLOBAL of a defined name overwrites its    *)
(* value and leaves the assigned value on the stack.                       *)
(***************************************************************************)
SetGlobalUndefined ==
    [][ /\ Running("SET_GLOBAL") =>
          IF ~tableHas(vm.globals, Instr.a)
          THEN /\ vm'.lastError = Err("undefined variable", Instr.a, 0, 0)
               /\ result' = "INTERPRET_RUNTIME_ERROR"
               /\ pc' = "ret"
               /\ vm'.globals = vm.globals
          ELSE /\ DOMAIN vm'.globals = DOMAIN vm.globals
               /\ vm'.globals[Instr.a] = peek(vm, 0)
               /\ \A name \in DOMAIN vm.globals \ {Instr.a} :
                     vm'.globals[name] = vm.globals[name]
               /\ vm'.stackTop = vm.stackTop
               /\ peek(vm', 0) = peek(vm, 0)
               /\ vm'.lastError = vm.lastError
        /\ (Running("GET_GLOBAL") /\ ~tableHas(vm.globals, Instr.a)) =>
               /\ vm'.lastError = Err("undefined variable", Instr.a, 0, 0)
               /\ result' = "INTERPRET_RUNTIME_ERROR"
               /\ pc' = "ret"
               /\ vm'.globals = vm.globals ]_vars

\* zz = 3 has raised after total = 2 went through: zz is undefined, total is 2.
AssignedUndefinedGlobal ==
    /\ pc = "ret"
    /\ result = "INTERPRET_RUNTIME_ERROR"
    /\ vm.lastError = Err("undefined variable", "zz", 0, 0)
    /\ vm.trace = << <<"S_assign", 7>> >>
    /\ ~tableHas(vm.globals, "zz")
    /\ tableHas(vm.globals, "total")
    /\ vm.globals["total"] = NUMBER_VAL(2)

(***************************************************************************)
(* C17.  SET_PROPERTY on an instance whose static flag is set raises a     *)
(* runtime error and leaves the instance's fields as they were; on an      *)
(* instance without the flag it stores the field, pops the instance and    *)
(* leaves the assigned value on the stack; on a value that is not an       *)
(* instance it raises a runtime error.                                     *)
(***************************************************************************)
SetPropertyStatic ==
    [][ Running("SET_PROPERTY") =>
          LET target == peek(vm, 1)
              value == peek(vm, 0)
              raised(err) == /\ vm'.lastError = err
                             /\ result' = "INTERPRET_RUNTIME_ERROR"
                             /\ pc' = "ret"
                             /\ vm'.objects = vm.objects
          IN  IF ~IS_INSTANCE(vm, target)
              THEN raised(Err("only instances have fields", "", 0, 0))
              ELSE IF vm.objects[target.v].isStatic
              THEN raised(Err("cannot modify a constant property", "", 0, 0))
              ELSE /\ DOMAIN vm'.objects[target.v].fields =
                         DOMAIN vm.objects[target.v].fields \cup {Instr.a}
                   /\ vm'.objects[target.v].fields[Instr.a] = value
                   /\ \A name \in DOMAIN vm.objects[target.v].fields \ {Instr.a} :
                         vm'.objects[target.v].fields[name] = vm.objects[target.v].fields[name]
                   /\ vm'.stackTop = vm.stackTop - 1
                   /\ peek(vm', 0) = value
                   /\ vm'.lastError = vm.lastError ]_vars

\* core.x = 1 has raised: core is static and still has no field.
StaticInstanceUnchanged ==
    /\ pc = "ret"
    /\ result = "INTERPRET_RUNTIME_ERROR"
    /\ vm.lastError = Err("cannot modify a constant property", "", 0, 0)
    /\ vm.trace = << <<"S_setStatic", 3>> >>
    /\ IS_INSTANCE(vm, vm.globals["core"])
    /\ vm.objects[vm.globals["core"].v].isStatic
    /\ vm.objects[vm.globals["core"].v].fields = EmptyTable

(***************************************************************************)
(* C18.  Interning holds for every string the VM produces: any two live    *)
(* strings that are textually equal are the same object.  The strings      *)
(* looked at are the ones the globals hold, which are live; the text of a  *)
(* string is its characters up to its length or its first NUL.             *)
(***************************************************************************)
InternedStringsUnique ==
    LET text(value) ==
            LET string == vm.objects[value.v]
            IN  SubSeq(string.chars, 1,
                       IF wcslen(string.chars) < string.length
                       THEN wcslen(string.chars) ELSE string.length)
    IN  \A g, h \in DOMAIN vm.globals :
            (/\ IS_STRING(vm, vm.globals[g])
             /\ IS_STRING(vm, vm.globals[h])
             /\ text(vm.globals[g]) = text(vm.globals[h]))
                => vm.globals[g] = vm.globals[h]

(***************************************************************************)
(* C19.  INDEX_SUBSCR and STORE_SUBSCR on a string or list of length n     *)
(* with a numeric index i succeed exactly when -n <= i < n, and then       *)
(* address element i when i >= 0 and element n + i when i < 0; any other   *)
(* numeric index raises an out-of-range error and a non-numeric index      *)
(* raises an error.  The steps looked at have their operands within the    *)
(* stack, and a store into a string has a string of one character as item. *)
(***************************************************************************)
SubscriptInRange ==
    [][ ((Running("INDEX_SUBSCR") \/ Running("STORE_SUBSCR"))
            /\ InStack(vm.stackTop - 1) /\ InStack(vm.stackTop - 3)) =>
          LET isStore == Instr.op = "STORE_SUBSCR"
              item == peek(vm, 0)
              index == peek(vm, IF isStore THEN 1 ELSE 0)
              obj == peek(vm, IF isStore THEN 2 ELSE 1)
              object == vm.objects[obj.v]
              n == IF IS_STRING(vm, obj) THEN object.length ELSE Len(object.items)
              raised == pc' = "ret" /\ result' = "INTERPRET_RUNTIME_ERROR"
              k == IF index.v >= 0 THEN index.v \div 2 ELSE n + (index.v \div 2)
              storable == /\ IS_STRING(vm, item)
                          /\ wcslen(vm.objects[item.v].chars) = 1
          IN  ((IS_STRING(vm, obj) \/ IS_LIST(vm, obj))
                   /\ ((isStore /\ IS_STRING(vm, obj)) => storable)) =>
              IF ~IS_NUMBER(index)
              THEN raised
              ELSE IF index.v < 0 - 2 * n \/ index.v >= 2 * n
              THEN /\ raised
                   /\ vm'.lastError.msg \in {"string index out of range", "invalid string index",
                                             "list index out of range", "invalid list index"}
              ELSE /\ ~raised
                   /\ index.v % 2 = 0 =>
                        CASE ~isStore /\ IS_LIST(vm, obj) ->
                                 peek(vm', 0) = object.items[k + 1]
                          [] ~isStore /\ IS_STRING(vm, obj) ->
                                 /\ IS_STRING(vm', peek(vm', 0))
                                 /\ vm'.objects[peek(vm', 0).v].chars[1] = object.chars[k + 1]
                                 /\ vm'.objects[peek(vm', 0).v].length = 1
                          [] isStore /\ IS_LIST(vm, obj) ->
                                 /\ vm'.objects[obj.v].items = [object.items EXCEPT ![k + 1] = item]
                                 /\ peek(vm', 0) = item
                          [] isStore /\ IS_STRING(vm, obj) ->
                                 /\ vm'.objects[obj.v].chars =
                                       [object.chars EXCEPT ![k + 1] = vm.objects[item.v].chars[1]]
                                 /\ peek(vm', 0) = item ]_vars

(***************************************************************************)
(* C20, as stated.  For every list L and every valid index i, negative     *)
(* ones included, L.insert(i, x) followed by L.remove(i) leaves L with the *)
(* elements and the length it had.  The two built-ins are applied to every *)
(* list of the heap, with every index around its length; an index is valid *)
(* when insert accepts it.                                                 *)
(***************************************************************************)
InsertRemoveRestoresAnyIndex ==
    (InStack(vm.stackTop) /\ InStack(vm.stackTop + 2)) =>
    \A list \in {id \in 1 .. Len(vm.objects) : vm.objects[id].kind = "list"} :
    \A h \in (0 - 2 * Len(vm.objects[list].items) - 1) .. (2 * Len(vm.objects[list].items) + 1) :
        LET i == NumberOfHalves(h)
            x == NUMBER_VAL(9)
            L == OBJ_VAL(list)
            inserted == invokeList(push(push(push(M0, L), i), x), L, "insert", 2)
            removed == invokeList(push(push(pop(inserted.m), L), i), L, "remove", 1)
        IN  inserted.ok =>
               /\ removed.ok
               /\ removed.m.objects[list].items = vm.objects[list].items

(***************************************************************************)
(* C20, amended.  For every list L and every valid index i that is not     *)
(* negative, L.insert(i, x) followed by L.remove(i) leaves L with the      *)
(* elements and the length it had; insert accepts i when its integer part  *)
(* is below the length, and puts x at that position.                       *)
(***************************************************************************)
InsertRemoveRestores ==
    (InStack(vm.stackTop) /\ InStack(vm.stackTop + 2)) =>
    \A list \in {id \in 1 .. Len(vm.objects) : vm.objects[id].kind = "list"} :
    \A h \in 0 .. (2 * Len(vm.objects[list].items) + 1) :
        LET i == NumberOfHalves(h)
            x == NUMBER_VAL(9)
            L == OBJ_VAL(list)
            inserted == invokeList(push(push(push(M0, L), i), x), L, "insert", 2)
            removed == invokeList(push(push(pop(inserted.m), L), i), L, "remove", 1)
        IN  /\ inserted.ok <=> h \div 2 < Len(vm.objects[list].items)
            /\ inserted.ok =>
                  /\ Len(inserted.m.objects[list].items) = Len(vm.objects[list].items) + 1
                  /\ inserted.m.objects[list].items[h \div 2 + 1] = x
                  /\ removed.ok
                  /\ removed.m.objects[list].items = vm.objects[list].items

\* ys.insert(1, 9); ys.remove(1); have run on ys = [1, 2], which is [1, 2] again.
InsertedAndRemoved ==
    /\ pc = "run"
    /\ vm.lastError = NoError
    /\ vm.objects[vm.frames[frame].closure].function = "S_insertRemove"
    /\ ip = 14
    /\ IS_LIST(vm, vm.globals["ys"])
    /\ vm.objects[vm.globals["ys"].v].items = <<NUMBER_VAL(1), NUMBER_VAL(2)>>

\* C21: L.filter(pred) with pred a closure of arity 1 calls pred once per
\* element in index order and yields a new list of exactly the elements for
\* which pred returned a truthy value, in their order; when the built-in ends
\* the result sits in the slot that held the receiver, with the argument gone
\* (pred is keep or keepLocal here, which return their argument).
FilterResultInPlace ==
    [][ (/\ pc = "filter"
         /\ vm.lastError = NoError
         /\ top.native.i >= Len(vm.objects[top.native.list].items)
         /\ FunctionOf(vm, top.native.closure).name \in {"keep", "keepLocal"}) =>
            LET native == top.native
                Truthy(value) == ~isFalsey(value)
            IN  /\ native.i = Len(vm.objects[native.list].items)
                /\ vm'.objects[native.filtered].items =
                       SelectSeq(vm.objects[native.list].items, Truthy)
                /\ vm'.objects[native.list] = vm.objects[native.list]
                /\ native.filtered # native.list
                /\ vm.stack[vm'.stackTop - 1] = OBJ_VAL(native.list)
                /\ vm.stack[vm'.stackTop] = OBJ_VAL(native.closure)
                /\ vm'.stack[vm'.stackTop - 1] = OBJ_VAL(native.filtered) ]_vars

\* C22: substring(begin, end) is a half-open slice.  For a string of length n
\* and integers that, after a negative index is mapped to n + index, satisfy
\* 0 <= begin <= end <= n, the call succeeds and yields the string of length
\* end - begin made of the characters at begin .. end - 1; end < begin is a
\* runtime error.
SubstringHalfOpen ==
    [][ (/\ pc = "builtin"
         /\ cstack'[1].native.kind = "substring"
         /\ vm.stackTop = 3
         /\ IS_NUMBER(vm.stack[1])
         /\ IS_NUMBER(vm.stack[2])) =>
            LET str == vm.objects[vm.stack[0].v]
                n == str.length
                begin == IF AS_INT(vm.stack[1]) < 0 THEN n + AS_INT(vm.stack[1])
                         ELSE AS_INT(vm.stack[1])
                end == IF AS_INT(vm.stack[2]) < 0 THEN n + AS_INT(vm.stack[2])
                       ELSE AS_INT(vm.stack[2])
            IN  /\ (0 <= begin /\ begin <= end /\ end <= n) =>
                      /\ pc' = "built"
                      /\ result' = "INTERPRET_OK"
                      /\ vm'.stackTop = 1
                      /\ IS_STRING(vm', vm'.stack[0])
                      /\ vm'.objects[vm'.stack[0].v].length = end - begin
                      /\ Text(vm'.objects[vm'.stack[0].v].chars) = SubSeq(str.chars, begin + 1, end)
                /\ (0 <= begin /\ end < begin /\ begin <= n) =>
                      result' = "INTERPRET_RUNTIME_ERROR" ]_vars

\* C23: trim, trimStart and trimEnd yield the receiver with exactly the
\* maximal run of strip characters (whitespace without an argument, the
\* characters of the argument with one) removed from both ends, the start or
\* the end, and every other character kept; a receiver without strip
\* characters at the affected ends comes back unchanged and one made only of
\* strip characters gives the empty string.
TrimStripsEnds ==
    [][ (/\ pc = "builtin"
         /\ cstack'[1].native.kind \in {"trim", "trimStart", "trimEnd"}
         /\ vm.stackTop \in {1, 2}) =>
            LET name == cstack'[1].native.kind
                text == Text(vm.objects[vm.stack[0].v].chars)
                remove == IF vm.stackTop = 2 THEN Text(vm.objects[vm.stack[1].v].chars)
                          ELSE <<" ">>
                strip == {remove[k] : k \in 1 .. Len(remove)}
                Run(k, fromEnd) ==
                    \A j \in 1 .. k :
                        (IF fromEnd THEN text[Len(text) + 1 - j] ELSE text[j]) \in strip
                Longest(fromEnd) ==
                    CHOOSE k \in 0 .. Len(text) :
                        Run(k, fromEnd) /\ \A j \in 0 .. Len(text) : Run(j, fromEnd) => j <= k
                lead == IF name # "trimEnd" THEN Longest(FALSE) ELSE 0
                trail == IF name # "trimStart" THEN Longest(TRUE) ELSE 0
                expected == IF lead + trail >= Len(text) THEN << >>
                            ELSE SubSeq(text, lead + 1, Len(text) - trail)
            IN  /\ pc' = "built"
                /\ result' = "INTERPRET_OK"
                /\ vm'.stackTop = 1
                /\ IS_STRING(vm', vm'.stack[0])
                /\ vm'.objects[vm'.stack[0].v].length = Len(expected)
                /\ Text(vm'.objects[vm'.stack[0].v].chars) = expected ]_vars

\* C24: s.replace(old, new) with a non-empty old yields s with every
\* non-overlapping occurrence of old, found scanning left to right, replaced
\* by new and all other characters kept in order, for any lengths of old and
\* new; s itself is unchanged, and when old does not occur the result is s.
ReplaceAll ==
    [][ (/\ pc = "builtin"
         /\ cstack'[1].native.kind = "replace"
         /\ vm.stackTop = 3
         /\ IS_STRING(vm, vm.stack[1])
         /\ IS_STRING(vm, vm.stack[2])
         /\ Text(vm.objects[vm.stack[1].v].chars) # << >>) =>
            LET s == Text(vm.objects[vm.stack[0].v].chars)
                old == Text(vm.objects[vm.stack[1].v].chars)
                new == Text(vm.objects[vm.stack[2].v].chars)
                RECURSIVE Replaced(_)
                Replaced(text) ==
                    IF Len(text) < Len(old)
                    THEN text
                    ELSE IF SubSeq(text, 1, Len(old)) = old
                    THEN new \o Replaced(SubSeq(text, Len(old) + 1, Len(text)))
                    ELSE <<text[1]>> \o Replaced(Tail(text))
            IN  /\ pc' = "built"
                /\ result' = "INTERPRET_OK"
                /\ vm'.stackTop = 1
                /\ IS_STRING(vm', vm'.stack[0])
                /\ vm'.objects[vm'.stack[0].v].length = Len(Replaced(s))
                /\ Text(vm'.objects[vm'.stack[0].v].chars) = Replaced(s)
                /\ vm'.objects[vm.stack[0].v] = vm.objects[vm.stack[0].v] ]_vars

\* C25: s.count(needle) yields the number of non-overlapping occurrences of
\* needle in s, scanning left to right, and s.indexOf(needle) the position of
\* the first occurrence, -1 when there is none (needle not empty).
CountNonOverlapping ==
    [][ (/\ pc = "builtin"
         /\ cstack'[1].native.kind \in {"count", "indexOf"}
         /\ vm.stackTop = 2
         /\ IS_STRING(vm, vm.stack[1])
         /\ Text(vm.objects[vm.stack[1].v].chars) # << >>) =>
            LET s == Text(vm.objects[vm.stack[0].v].chars)
                needle == Text(vm.objects[vm.stack[1].v].chars)
                At(p) == SubSeq(s, p + 1, p + Len(needle)) = needle
                RECURSIVE Occurrences(_)
                Occurrences(p) ==
                    IF p + Len(needle) > Len(s) THEN 0
                    ELSE IF At(p) THEN 1 + Occurrences(p + Len(needle))
                    ELSE Occurrences(p + 1)
                first == {p \in 0 .. (Len(s) - Len(needle)) :
                             At(p) /\ \A q \in 0 .. (p - 1) : ~At(q)}
            IN  /\ pc' = "built"
                /\ result' = "INTERPRET_OK"
                /\ vm'.stackTop = 1
                /\ cstack'[1].native.kind = "count" =>
                      vm'.stack[0] = NUMBER_VAL(Occurrences(0))
                /\ cstack'[1].native.kind = "indexOf" =>
                      \/ first = {} /\ vm'.stack[0] = NUMBER_VAL(0 - 1)
                      \/ \E p \in first : vm'.stack[0] = NUMBER_VAL(p) ]_vars

\* C26: for every string s and single-character separator sep that occurs in
\* s exactly once, at any position, the strings of the list s.split(sep)
\* joined by sep give back s.
SplitJoin ==
    [][ (/\ pc = "builtin"
         /\ cstack'[1].native.kind = "split"
         /\ vm.stackTop = 2
         /\ IS_STRING(vm, vm.stack[1])
         /\ Len(Text(vm.objects[vm.stack[1].v].chars)) = 1
         /\ LET s == Text(vm.objects[vm.stack[0].v].chars)
                sep == Text(vm.objects[vm.stack[1].v].chars)
            IN  Cardinality({k \in 1 .. Len(s) : s[k] = sep[1]}) = 1) =>
            LET s == Text(vm.objects[vm.stack[0].v].chars)
                sep == Text(vm.objects[vm.stack[1].v].chars)
                items == vm'.objects[vm'.stack[0].v].items
                RECURSIVE Joined(_)
                Joined(k) ==
                    IF k > Len(items) THEN << >>
                    ELSE (IF k > 1 THEN sep ELSE << >>)
                             \o Text(vm'.objects[items[k].v].chars) \o Joined(k + 1)
            IN  /\ pc' = "built"
                /\ result' = "INTERPRET_OK"
                /\ vm'.stackTop = 1
                /\ IS_LIST(vm', vm'.stack[0])
                /\ \A k \in 1 .. Len(items) : IS_STRING(vm', items[k])
                /\ Joined(1) = s ]_vars

\* C27: whenever an instruction or built-in allocates or re-enters the VM
\* through a callback, every object it has made and will still use is
\* reachable from a root of the collector.  For filter, whose callbacks are
\* steps of their own: while the loop of filter is under way, the receiver,
\* the callback closure and the list being built are reachable in every state.
WorkingObjectsRooted ==
    \A k \in 1 .. Len(cstack) :
        (/\ cstack[k].native.kind = "filter"
         /\ pc \in {"run", "filter"}
         /\ vm.lastError = NoError) =>
            {cstack[k].native.list, cstack[k].native.closure, cstack[k].native.filtered}
                \subseteq markRoots(vm)

\* C28: defineNative, defineNativeInstance and defineProperty bind the given
\* name to the given native, instance or value in the target table and leave
\* the stack exactly as they found it, at any stack depth (here: called in
\* any state that leaves room for the two pushes, on the core class 1 and its
\* instance 2).
DefineBindsAtAnyDepth ==
    (InStack(vm.stackTop) /\ InStack(vm.stackTop + 1)) =>
        LET SameStack(m) ==
                /\ m.stackTop = vm.stackTop
                /\ \A i \in 0 .. (vm.stackTop - 1) : m.stack[i] = vm.stack[i]
            global == defineNativeInstance(M0, "n", 2)
            native == defineNative(M0, "n", 1, 1)
            property == defineProperty(M0, "n", NUMBER_VAL(1), 2)
        IN  /\ ~global.wild /\ ~native.wild /\ ~property.wild
            /\ SameStack(global) /\ SameStack(native) /\ SameStack(property)
            /\ global.globals = tableSet(vm.globals, "n", OBJ_VAL(2))
            /\ native.objects[1].methods =
                  tableSet(vm.objects[1].methods, "n", OBJ_VAL(NewId(vm)))
            /\ native.objects[NewId(vm)] = [kind |-> "native", arity |-> 1]
            /\ property.objects[2].fields = tableSet(vm.objects[2].fields, "n", NUMBER_VAL(1))

\* C29: wherever the dispatch loop or a function it calls raises a runtime
\* error, the active frame is the loop's frame and its stored instruction
\* pointer is the loop's cached one, and every outer frame's stored pointer
\* is the position just after its pending call instruction: the trace that
\* runtimeError prints names, frame by frame, the failing instruction and the
\* calling instructions.
ErrorLinesFlushed ==
    [][ (/\ pc \in {"run", "filter"}
         /\ vm.frameCount > 0
         /\ vm'.frameCount = 0
         /\ ~Running("RETURN")) =>
            /\ frame = vm.frameCount - 1
            /\ Len(vm'.trace) = vm.frameCount
            /\ vm'.trace[1] = <<vm.objects[vm.frames[frame].closure].function, ip>>
            /\ \A k \in 2 .. vm.frameCount :
                  LET outer == vm.frames[vm.frameCount - k]
                      code == FunctionOf(vm, outer.closure).code
                  IN  /\ vm'.trace[k] = <<vm.objects[outer.closure].function, outer.ip - 1>>
                      /\ outer.ip - 1 \in DOMAIN code
                      /\ code[outer.ip - 1].op \in {"CALL", "INVOKE", "SUPER_INVOKE"} ]_vars

\* An error was raised two calls deep: the trace has three lines.
ErrorTracedThroughCalls ==
    /\ pc = "ret"
    /\ result = "INTERPRET_RUNTIME_ERROR"
    /\ interprets = 1
    /\ Len(vm.trace) >= 3
    /\ vm.trace[3][1] \in Scripts

\* C30: a frame carries the callback mark only if runClosure made it and it
\* has not returned yet: every active frame made by CALL, INVOKE,
\* SUPER_INVOKE or interpret has the mark clear, over any sequence of
\* interpret calls, so that RETURN from it resumes its caller.  The frames of
\* runClosure are those at which a filter under way entered it.
CallbackMarkOnlyOnCallbacks ==
    \A i \in 0 .. (vm.frameCount - 1) :
        (i \in DOMAIN vm.frames /\ pc = "run" /\ vm.frames[i].callClosure) =>
            \E k \in 1 .. (Len(cstack) - 1) :
                /\ cstack[k].native.kind = "filter"
                /\ cstack[k].native.entryCount = i

\* C31: when RETURN executes in a frame that has a caller and that runClosure
\* did not make, the stack is cut back to the frame's slot 0 and the return
\* value is pushed there, frameCount is one less, the caller resumes at the
\* instruction following its call, and every stack slot below the returning
\* frame's slot 0 is unchanged.
ReturnResumesCaller ==
    [][ (/\ Running("RETURN")
         /\ frame = vm.frameCount - 1
         /\ frame > 0
         /\ InStack(vm.stackTop - 1)
         /\ vm.frames[frame].slots \in StackAddr
         /\ ~(/\ Len(cstack) > 1
              /\ cstack[Len(cstack) - 1].native.kind = "filter"
              /\ cstack[Len(cstack) - 1].native.entryCount = frame)) =>
            LET slots == vm.frames[frame].slots
                caller == vm.frames[frame - 1]
                code == FunctionOf(vm, caller.closure).code
            IN  /\ pc' = "run"
                /\ vm'.frameCount = vm.frameCount - 1
                /\ vm'.stackTop = slots + 1
                /\ vm'.stack[slots] = vm.stack[vm.stackTop - 1]
                /\ \A i \in StackAddr : i < slots => vm'.stack[i] = vm.stack[i]
                /\ Len(cstack') = Len(cstack)
                /\ cstack'[Len(cstack)].frame = frame - 1
                /\ cstack'[Len(cstack)].ip = caller.ip
                /\ caller.ip - 1 \in DOMAIN code
                /\ code[caller.ip - 1].op \in {"CALL", "INVOKE", "SUPER_INVOKE"} ]_vars

\* C32: every call of the built-ins count and replace on string arguments
\* terminates, an empty needle included, and the scan position never moves
\* past the end of the receiver: the call returns, and no read was made
\* beyond the receiver's terminator.
CountReplaceTerminate ==
    [][ (/\ pc = "builtin"
         /\ \/ /\ cstack'[1].native.kind = "count"
               /\ vm.stackTop = 2
            \/ /\ cstack'[1].native.kind = "replace"
               /\ vm.stackTop = 3
         /\ \A i \in 1 .. (vm.stackTop - 1) : IS_STRING(vm, vm.stack[i])) =>
            /\ pc' # "hang"
            /\ ~vm'.wild ]_vars

\* C33: no string built-in writes outside the buffer it allocated: replace
\* writes no more characters into its copy of the receiver than the copy
\* holds, whatever the lengths of old and new, and every index that upper and
\* lower write is smaller than the length + 1 characters they allocated.
BuiltinWritesInBuffer ==
    [][ (/\ pc = "builtin"
         /\ \/ /\ cstack'[1].native.kind = "replace"
               /\ vm.stackTop = 3
               /\ IS_STRING(vm, vm.stack[1])
               /\ IS_STRING(vm, vm.stack[2])
            \/ /\ cstack'[1].native.kind \in {"upper", "lower"}
               /\ vm.stackTop = 1) =>
            ~vm'.oob ]_vars

====
